---- MODULE Spec2Model ----
(***************************************************************************)
(* A model of moleco's notation core (src/src/tokenize.rs): the tokenizer  *)
(* of the indexing / concentration strings, the Content model and the tree *)
(* combiner behind generate_mixture_tree.                                  *)
(*                                                                         *)
(* A Rust &str is modelled as a sequence of one-character strings, an      *)
(* Option<T> as a sequence of length 0 (None) or 1 (Some), a Result as a   *)
(* record [tag |-> "Ok" | "Err" | "Abort", val |-> ...] where "Abort" is a *)
(* panic (unwrap on None, unreachable!, a checked arithmetic overflow).    *)
(***************************************************************************)
EXTENDS Integers, Sequences, FiniteSets, TLC

VARIABLES
    pc,             \* position of the scenario that is running
    input,          \* tokenize_string: the input string
    start,          \* tokenize_string: the expected first character
    result,         \* tokenize_string(input, start)
    wrapped,        \* tokenize_string of the same payload in one more {..}
    indexing,       \* generate_mixture_tree: the indexing string
    concentration,  \* generate_mixture_tree: the concentration string
    i_tree,         \* tokenize_string(indexing, 'n')
    c_tree,         \* tokenize_string(concentration, 'g')
    mixture,        \* the Result of generate_mixture_tree
    token_text,     \* Content::from_str: the token
    parsed,         \* Content::from_str(token_text)
    receiver,       \* a Content, the self of value_at_magnitude
    checked_build,  \* the build: TRUE panics on overflow, FALSE wraps
    target,         \* the magnitude asked for
    at_magnitude,   \* receiver.value_at_magnitude(target)
    capacity,       \* calculate_capacity(receiver.concentration, target)
    mixture_info,   \* Picture: the tree of generate_mixture_tree
    calculated,     \* calculate_widths(mixture_info.ingredients)
    generation,     \* Picture::generate: how far it got
    bar_widths,     \* draw_compound_bar: the widths calculate_widths gave
    n_schemes,      \* self.schemes.len()
    bar_unestimated,\* draw_components: unestimated_capacity
    bar_start,      \* draw_components: start_x
    bar_end,        \* draw_components: end_x
    iteration,      \* draw_compound_bar: the keys as sums.iter() gives them
    ordered,        \* draw_compound_bar: ordered_widths
    drawn           \* draw_components: bar_layers and line_layers

vars == <<pc, input, start, result, wrapped,
          indexing, concentration, i_tree, c_tree, mixture,
          token_text, parsed,
          receiver, checked_build, target, at_magnitude, capacity,
          mixture_info, calculated, generation,
          bar_widths, n_schemes, bar_unestimated, bar_start, bar_end,
          iteration, ordered, drawn>>

tokVars == <<input, start, result, wrapped>>
mixVars == <<indexing, concentration, i_tree, c_tree, mixture>>
strVars == <<token_text, parsed>>
magVars == <<receiver, checked_build, target, at_magnitude, capacity>>
widVars == <<mixture_info, calculated, generation>>
barVars == <<bar_widths, n_schemes, bar_unestimated, bar_start, bar_end,
             iteration, ordered, drawn>>
layVars == <<widVars, barVars>>

----------------------------------------------------------------------------
(* Bounds of the checked input sets.                                       *)

\* longest payload (in characters) handed to tokenize_string alone
MaxLen == 5
\* longest indexing / concentration payload (in lexemes) handed to
\* generate_mixture_tree
MaxPieces == 4
\* Content::from_str: longest value segment after its qualifier, longest
\* magnitude segment
MaxValueLen == 3
MaxMagnitudeLen == 2
\* value_at_magnitude, calculate_capacity: magnitudes from -MaxBelow up
MaxBelow == 21

----------------------------------------------------------------------------
(* Values.                                                                 *)

None == <<>>
Some(v) == <<v>>

Ok(v) == [tag |-> "Ok", val |-> v]
Err(e) == [tag |-> "Err", val |-> e]
Abort == [tag |-> "Abort", val |-> "panic"]

\* Token { value }
Token(v) == [kind |-> "Token", value |-> v]
\* Group { components, value }
Group(cs, v) == [kind |-> "Group", components |-> cs, value |-> v]

\* All sequences over S of length 0..n
RECURSIVE SeqsUpTo(_, _)
SeqsUpTo(S, n) ==
    IF n = 0 THEN {<<>>}
    ELSE LET shorter == SeqsUpTo(S, n - 1)
         IN  shorter \cup {Append(s, c) : s \in shorter, c \in S}

\* Concatenation of a sequence of strings
RECURSIVE Flatten(_)
Flatten(ps) == IF ps = <<>> THEN <<>> ELSE Head(ps) \o Flatten(Tail(ps))

----------------------------------------------------------------------------
(* Tokenizer: parse_group, tokenize.rs:100-190.                            *)

RECURSIVE parse_group(_, _)
RECURSIVE parse_loop(_, _, _, _)

\* AfterAmpersand without the peek for a second '&': no empty Token between
\* two adjacent '&'
AfterAmpersand_NoAdjacent(s, p, components) ==
    IF p > Len(s) \/ s[p] = "}"
    THEN Append(components, Token(<<>>))
    ELSE components

\* tokenize.rs:126-140: after a '&' has been consumed, peek at position p
AfterAmpersand(s, p, components) ==
    IF p > Len(s) \/ s[p] = "}" \/ s[p] = "&"
    THEN Append(components, Token(<<>>))
    ELSE components

\* tokenize.rs:118-123, 148-153, 180-184: flush a non-empty current_token
FlushToken(components, current_token) ==
    IF current_token /= <<>>
    THEN Append(components, Token(current_token))
    ELSE components

\* GroupValueEnd that takes no character: every Group's value is None
GroupValueEnd_Nothing(s, p) == p

\* tokenize.rs:155-165: the characters from p up to the next '}' or '&'
RECURSIVE GroupValueEnd(_, _)
GroupValueEnd(s, p) ==
    IF p > Len(s) \/ s[p] = "}" \/ s[p] = "&" THEN p
    ELSE GroupValueEnd(s, p + 1)

\* tokenize.rs:146-171: the '}' arm; p is the position of the '}'
CloseGroup(s, p, components, current_token) ==
    LET flushed == FlushToken(components, current_token)
        e == GroupValueEnd(s, p + 1)
        v == SubSeq(s, p + 1, e - 1)
    IN  [group |-> Group(flushed, IF v = <<>> THEN None ELSE Some(v)),
         pos |-> e]

\* tokenize.rs:115-190: the while loop; pos is the iterator's position
parse_loop(s, pos, components, current_token) ==
    IF pos > Len(s)
    THEN [group |-> Group(FlushToken(components, current_token), None),
          pos |-> pos]
    ELSE CASE s[pos] = "&" ->
                parse_loop(s, pos + 1,
                           AfterAmpersand(s, pos + 1,
                                          FlushToken(components, current_token)),
                           <<>>)
           [] s[pos] = "{" ->
                LET r == parse_group(s, pos + 1)
                IN  parse_loop(s, r.pos, Append(components, r.group),
                               current_token)
           [] s[pos] = "}" ->
                CloseGroup(s, pos, components, current_token)
           [] OTHER ->
                parse_loop(s, pos + 1, components,
                           Append(current_token, s[pos]))

\* tokenize.rs:100-113: the leading empty token, then the loop
parse_group(s, pos) ==
    parse_loop(s, pos,
               IF pos > Len(s) \/ s[pos] = "&"
               THEN <<Token(<<>>)>> ELSE <<>>,
               <<>>)

----------------------------------------------------------------------------
(* Tokenizer: tokenize_string, tokenize.rs:33-98.                          *)

\* ScanParentheses without the early return on a negative level
RECURSIVE ScanParentheses_NoEarlyReturn(_, _, _, _)
ScanParentheses_NoEarlyReturn(s, i, level_indicator, covering) ==
    IF i > Len(s)
    THEN [neg |-> FALSE, level |-> level_indicator, covering |-> covering]
    ELSE LET level == CASE s[i] = "{" -> level_indicator + 1
                        [] s[i] = "}" -> level_indicator - 1
                        [] OTHER -> level_indicator
             decreased == s[i] = "}"
         IN  ScanParentheses_NoEarlyReturn(s, i + 1, level,
                 IF decreased /\ level = 0 /\ i + 1 <= Len(s)
                 THEN FALSE ELSE covering)

\* ScanParentheses that never clears first_group_is_covering_entire_payload
RECURSIVE ScanParentheses_AlwaysCovering(_, _, _, _)
ScanParentheses_AlwaysCovering(s, i, level_indicator, covering) ==
    IF i > Len(s)
    THEN [neg |-> FALSE, level |-> level_indicator, covering |-> covering]
    ELSE LET level == CASE s[i] = "{" -> level_indicator + 1
                        [] s[i] = "}" -> level_indicator - 1
                        [] OTHER -> level_indicator
         IN  IF level < 0
             THEN [neg |-> TRUE, level |-> level, covering |-> covering]
             ELSE ScanParentheses_AlwaysCovering(s, i + 1, level, covering)

\* tokenize.rs:64-86: the depth scan from character i on.  neg: the level
\* went below 0 (the early return); covering: the first group was not seen
\* to close before the end of the payload.
RECURSIVE ScanParentheses(_, _, _, _)
ScanParentheses(s, i, level_indicator, covering) ==
    IF i > Len(s)
    THEN [neg |-> FALSE, level |-> level_indicator, covering |-> covering]
    ELSE LET level == CASE s[i] = "{" -> level_indicator + 1
                        [] s[i] = "}" -> level_indicator - 1
                        [] OTHER -> level_indicator
             decreased == s[i] = "}"
         IN  IF level < 0
             THEN [neg |-> TRUE, level |-> level, covering |-> covering]
             ELSE ScanParentheses(s, i + 1, level,
                      IF decreased /\ level = 0 /\ i + 1 <= Len(s)
                      THEN FALSE ELSE covering)

\* tokenize.rs:91-94: new_input.get(1..len - 1), None when 1 > len - 1
StripWrapper(new_input) ==
    IF 1 > Len(new_input) - 1 THEN None
    ELSE Some(SubSeq(new_input, 2, Len(new_input) - 1))

tokenize_string(in, st) ==
    IF in = <<>> THEN Err("Empty group passed to tokenization")
    ELSE IF Head(in) /= st THEN Err("Wrong first character")
    ELSE LET new_input == Tail(in)
             len == Len(new_input)
             ends_with_paren == len > 0 /\ new_input[len] = "}"
             starts_with_paren == len > 0 /\ new_input[1] = "{"
             scan == ScanParentheses(new_input, 1, 0, TRUE)
         IN  IF scan.neg \/ scan.level /= 0
             THEN Err("Unmatching parentheses")
             ELSE IF starts_with_paren /\ ends_with_paren /\ scan.covering
             THEN LET stripped == StripWrapper(new_input)
                  IN  IF stripped = None THEN Abort
                      ELSE Ok(parse_group(stripped[1], 1).group)
             ELSE Ok(parse_group(new_input, 1).group)

----------------------------------------------------------------------------
(* usize, tokenize.rs:222.  A usize of a 64-bit target is kept as four     *)
(* 16-bit limbs, least significant first, so that arithmetic modulo 2^64   *)
(* stays within the model checker's integers.                              *)

LimbBase == 65536
\* 2^15: the top limb of 2^63
LimbSign == 32768

U64(n) == <<n % LimbBase, n \div LimbBase, 0, 0>>

\* x * 10 + d modulo 2^64, and the carry out of the top limb
Mul10Add(x, d) ==
    LET t1 == x[1] * 10 + d
        t2 == x[2] * 10 + (t1 \div LimbBase)
        t3 == x[3] * 10 + (t2 \div LimbBase)
        t4 == x[4] * 10 + (t3 \div LimbBase)
    IN  [val |-> <<t1 % LimbBase, t2 % LimbBase,
                   t3 % LimbBase, t4 % LimbBase>>,
         carry |-> t4 \div LimbBase]

\* x * 10^k modulo 2^64; overflow: some step carried out of 64 bits
RECURSIVE MulPow10(_, _)
MulPow10(x, k) ==
    IF k = 0 THEN [val |-> x, overflow |-> FALSE]
    ELSE LET m == Mul10Add(x, 0)
         IN  IF m.carry /= 0
             THEN [val |-> MulPow10(m.val, k - 1).val, overflow |-> TRUE]
             ELSE MulPow10(m.val, k - 1)

\* the number of a usize small enough to be one of the model's integers
ToNat(x) == x[1] + LimbBase * x[2]

Digits == {"0", "1", "2", "3", "4", "5", "6", "7", "8", "9"}

DigitVal(c) ==
    CASE c = "0" -> 0 [] c = "1" -> 1 [] c = "2" -> 2 [] c = "3" -> 3
      [] c = "4" -> 4 [] c = "5" -> 5 [] c = "6" -> 6 [] c = "7" -> 7
      [] c = "8" -> 8 [] c = "9" -> 9

\* core::num::from_str_radix, the digit loop: checked_mul(10) then
\* checked_add(digit); None on an invalid digit or on overflow
RECURSIVE ParseDigits(_, _, _)
ParseDigits(s, i, acc) ==
    IF i > Len(s) THEN Some(acc)
    ELSE IF s[i] \notin Digits THEN None
    ELSE LET m == Mul10Add(acc, DigitVal(s[i]))
         IN  IF m.carry /= 0 THEN None
             ELSE ParseDigits(s, i + 1, m.val)

\* str::parse::<usize>, tokenize.rs:323, 326, 339, 340, 342: an optional
\* '+', then at least one digit
parse_usize(s) ==
    IF s = <<>> THEN None
    ELSE LET digits == IF s[1] = "+" THEN Tail(s) ELSE s
             r == IF digits = <<>> THEN None
                  ELSE ParseDigits(digits, 1, U64(0))
         IN  IF r = None THEN None ELSE Some(ToNat(r[1]))

\* str::parse::<isize>, tokenize.rs:345: an optional '+' or '-', then at
\* least one digit; the range is -2^63 .. 2^63 - 1
parse_isize(s) ==
    IF s = <<>> THEN None
    ELSE LET negative == s[1] = "-"
             digits == IF s[1] \in {"+", "-"} THEN Tail(s) ELSE s
             r == IF digits = <<>> THEN None
                  ELSE ParseDigits(digits, 1, U64(0))
         IN  IF r = None THEN None
             ELSE IF r[1][4] >= LimbSign
                     /\ ~(negative /\ r[1] = <<0, 0, 0, LimbSign>>)
             THEN None
             ELSE Some(IF negative THEN 0 - ToNat(r[1]) ELSE ToNat(r[1]))

----------------------------------------------------------------------------
(* Content model: split_payload and Content, tokenize.rs:192-348.          *)

\* Content { value, concentration, magnitude }
Content(v, c, m) == [value |-> v, concentration |-> c, magnitude |-> m]

StartsWith(s, pre) == Len(s) >= Len(pre) /\ SubSeq(s, 1, Len(pre)) = pre

\* str::contains
Contains(s, pat) ==
    \E i \in 1..(Len(s) - Len(pat) + 1) : SubSeq(s, i, i + Len(pat) - 1) = pat

\* str::split(pat).collect(): the pieces between the non-overlapping
\* matches of pat, found from the left
RECURSIVE Split(_, _)
Split(s, pat) ==
    IF ~Contains(s, pat) THEN <<s>>
    ELSE LET at == CHOOSE i \in 1..(Len(s) - Len(pat) + 1) :
                      /\ SubSeq(s, i, i + Len(pat) - 1) = pat
                      /\ \A j \in 1..(i - 1) :
                            SubSeq(s, j, j + Len(pat) - 1) /= pat
         IN  <<SubSeq(s, 1, at - 1)>>
                 \o Split(SubSeq(s, at + Len(pat), Len(s)), pat)

\* tokenize.rs:295-310: the first infix the payload contains, in the order
\* of the match arms
Infixes ==
    << <<<<"p","p">>, "PP">>, <<<<"w","f">>, "WF">>, <<<<"w","v">>, "WV">>,
       <<<<"r","f">>, "RF">>, <<<<"m","f">>, "MF">>, <<<<"v","p">>, "VP">>,
       <<<<"m","r">>, "MR">>, <<<<"m","b">>, "MB">> >>

FindInfix(payload) ==
    LET found == {i \in 1..Len(Infixes) : Contains(payload, Infixes[i][1])}
    IN  IF found = {} THEN None
        ELSE Some(Infixes[CHOOSE i \in found : \A j \in found : i <= j])

InvalidInfix == "Invalid content notation, unrecognized content infix"
TooManyParts == "Invalid content notation, too many parts"
InvalidValue == "Invalid content notation, invalid value"

\* tokenize.rs:21-31: parse_result!
parse_result(r) == IF r = None THEN Err(InvalidValue) ELSE Ok(r[1])

\* parse_value without the arm of the two-character qualifiers
parse_value_OneCharQualifiers(s) ==
    IF StartsWith(s, <<"~">>) \/ StartsWith(s, <<"<">>)
       \/ StartsWith(s, <<">">>)
    THEN parse_result(parse_usize(SubSeq(s, 2, Len(s))))
    ELSE IF Contains(s, <<":">>)
    THEN LET parts == Split(s, <<":">>)
         IN  IF Len(parts) /= 2 THEN Err(TooManyParts)
             ELSE IF parse_usize(parts[1]) = None THEN Err(InvalidValue)
             ELSE parse_result(parse_usize(parts[2]))
    ELSE parse_result(parse_usize(s))

\* tokenize.rs:321-343: the value of the first chunk
parse_value(s) ==
    IF StartsWith(s, <<"<", "=">>) \/ StartsWith(s, <<">", "=">>)
    THEN parse_result(parse_usize(SubSeq(s, 3, Len(s))))
    ELSE IF StartsWith(s, <<"~">>) \/ StartsWith(s, <<"<">>)
            \/ StartsWith(s, <<">">>)
    THEN parse_result(parse_usize(SubSeq(s, 2, Len(s))))
    ELSE IF Contains(s, <<":">>)
    THEN LET parts == Split(s, <<":">>)
         IN  IF Len(parts) /= 2 THEN Err(TooManyParts)
             ELSE IF parse_usize(parts[1]) = None THEN Err(InvalidValue)
             ELSE parse_result(parse_usize(parts[2]))
    ELSE parse_result(parse_usize(s))

\* tokenize.rs:294-348
split_payload(payload) ==
    LET infix == FindInfix(payload)
    IN  IF infix = None THEN Err(InvalidInfix)
        ELSE LET chunks == Split(payload, infix[1][1])
             IN  IF Len(chunks) /= 2 THEN Err(TooManyParts)
                 ELSE LET value == parse_value(chunks[1])
                          magnitude == parse_result(parse_isize(chunks[2]))
                      IN  IF value.tag /= "Ok" THEN value
                          ELSE IF magnitude.tag /= "Ok" THEN magnitude
                          ELSE Ok(Content(value.val, infix[1][2],
                                          magnitude.val))

\* tokenize.rs:228-235
from_str(payload) == split_payload(payload)

\* Capacity
Absolute(n) == [kind |-> "Absolute", n |-> n]
Relative == [kind |-> "Relative", n |-> U64(0)]
Unestimated == [kind |-> "Unestimated", n |-> U64(0)]

\* 10usize.pow(k): with overflow checks it panics when 10^k does not fit,
\* without them it wraps
pow10(k, overflow_checks) ==
    LET p == MulPow10(U64(1), k)
    IN  IF p.overflow /\ overflow_checks THEN Abort ELSE Ok(p.val)

\* tokenize.rs:237-250.  value * 10^k modulo 2^64 is computed as k
\* multiplications of value by 10; with overflow checks the pow or the
\* product panics when it does not fit.
value_at_magnitude(self, magnitude, overflow_checks) ==
    IF magnitude = self.magnitude THEN Ok(U64(self.value))
    ELSE IF magnitude > self.magnitude THEN Abort
    ELSE LET k == self.magnitude - magnitude
             p == pow10(k, overflow_checks)
             product == MulPow10(U64(self.value), k)
         IN  IF p.tag = "Abort" THEN Abort
             ELSE IF product.overflow /\ overflow_checks THEN Abort
             ELSE Ok(product.val)

\* tokenize.rs:262-279
calculate_capacity(conc, magnitude, overflow_checks) ==
    CASE conc \in {"PP", "MF"} ->
            IF magnitude > 1 THEN Abort
            ELSE LET p == pow10(0 - (magnitude - 2), overflow_checks)
                 IN  IF p.tag = "Abort" THEN Abort ELSE Ok(Absolute(p.val))
      [] conc \in {"WV", "WF", "RF"} ->
            IF magnitude > -1 THEN Abort
            ELSE LET p == pow10(0 - magnitude, overflow_checks)
                 IN  IF p.tag = "Abort" THEN Abort ELSE Ok(Absolute(p.val))
      [] conc = "VP" -> Ok(Relative)
      [] conc \in {"MR", "MB"} -> Ok(Unestimated)

\* tokenize.rs:284-291
maximum_viable_magnitude(conc) ==
    CASE conc \in {"PP", "MF"} -> Some(1)
      [] conc \in {"WV", "WF", "RF"} -> Some(-1)
      [] conc \in {"MR", "MB"} -> Some(0)
      [] conc = "VP" -> None

----------------------------------------------------------------------------
(* Tree combiner: generate_mixture_tree, tokenize.rs:350-460.              *)

\* Substance { index, content }
Substance(index, c) == [kind |-> "Substance", index |-> index, content |-> c]
\* Mixture { ingredients, content }
Mixture(ingredients, c) ==
    [kind |-> "Mixture", ingredients |-> ingredients, content |-> c]

MismatchedCount == "Mismatched components, found different numbers of items"
MismatchedKind == "Mismatched components, found mixture and substance"

\* create_substance that keeps an empty indexing token as Some("")
create_substance_AlwaysIndexed(indexing_token, concentration_token) ==
    LET index == Some(indexing_token.value)
    IN  IF concentration_token.value = <<>> THEN Ok(Substance(index, None))
        ELSE LET c == from_str(concentration_token.value)
             IN  IF c.tag /= "Ok" THEN c
                 ELSE Ok(Substance(index, Some(c.val)))

\* tokenize.rs:449-460
create_substance(indexing_token, concentration_token) ==
    LET index == IF indexing_token.value = <<>> THEN None
                 ELSE Some(indexing_token.value)
    IN  IF concentration_token.value = <<>> THEN Ok(Substance(index, None))
        ELSE LET c == from_str(concentration_token.value)
             IN  IF c.tag /= "Ok" THEN c
                 ELSE Ok(Substance(index, Some(c.val)))

RECURSIVE combine_groups(_, _)
RECURSIVE CombineFrom(_, _, _, _)
RECURSIVE PushIngredient(_, _, _, _, _)

\* CombinePair that repairs a Token facing a Group instead of rejecting it
CombinePair_Lenient(c1, c2) ==
    CASE c1.kind = "Token" /\ c2.kind = "Token" -> create_substance(c1, c2)
      [] c1.kind = "Group" /\ c2.kind = "Group" -> combine_groups(c1, c2)
      [] OTHER -> Ok(Substance(None, None))

\* tokenize.rs:414-422: the ingredient of one pair of components
CombinePair(c1, c2) ==
    CASE c1.kind = "Token" /\ c2.kind = "Token" -> create_substance(c1, c2)
      [] c1.kind = "Group" /\ c2.kind = "Group" -> combine_groups(c1, c2)
      [] OTHER -> Err(MismatchedKind)

\* tokenize.rs:413-424: the loop from index i on
CombineFrom(indexing_components, concentration_components, i, combined) ==
    IF i > Len(indexing_components) THEN Ok(combined)
    ELSE PushIngredient(indexing_components, concentration_components, i,
                        combined,
                        CombinePair(indexing_components[i],
                                    concentration_components[i]))

\* tokenize.rs:416, 419: the ? on the ingredient r of pair i, the push, and
\* the rest of the loop
PushIngredient(indexing_components, concentration_components, i, combined, r) ==
    IF r.tag /= "Ok" THEN r
    ELSE CombineFrom(indexing_components, concentration_components, i + 1,
                     Append(combined, r.val))

\* tokenize.rs:393-425
combine_components(indexing_components, concentration_components) ==
    IF Len(indexing_components) /= Len(concentration_components)
    THEN Err(MismatchedCount)
    ELSE CombineFrom(indexing_components, concentration_components, 1, <<>>)

\* tokenize.rs:387-390: the ? on the Content of the group's value
WithContent(ingredients, c) ==
    IF c.tag /= "Ok" THEN c ELSE Ok(Mixture(ingredients, Some(c.val)))

\* tokenize.rs:382-390: the ? on the ingredients, then the content
MixtureOf(ingredients, value) ==
    IF ingredients.tag /= "Ok" THEN ingredients
    ELSE IF value = None THEN Ok(Mixture(ingredients.val, None))
    ELSE WithContent(ingredients.val, from_str(value[1]))

\* tokenize.rs:380-391
combine_groups(indexing_group, concentration_group) ==
    MixtureOf(combine_components(indexing_group.components,
                                 concentration_group.components),
              concentration_group.value)

----------------------------------------------------------------------------
(* The variables of the scenarios that are not running.                    *)

NotRun == Err("not run")

IdleTok ==
    input = <<>> /\ start = "n" /\ result = NotRun /\ wrapped = NotRun
IdleMix ==
    /\ indexing = <<>> /\ concentration = <<>>
    /\ i_tree = NotRun /\ c_tree = NotRun /\ mixture = NotRun
IdleStr == token_text = <<>> /\ parsed = NotRun
IdleMag ==
    /\ receiver = Content(0, "PP", 0) /\ checked_build = TRUE
    /\ target = 0 /\ at_magnitude = NotRun /\ capacity = NotRun
IdleWid ==
    mixture_info = <<>> /\ calculated = NotRun /\ generation = "none"
IdleBar ==
    /\ bar_widths = <<>> /\ n_schemes = 0 /\ bar_unestimated = FALSE
    /\ bar_start = 0 /\ bar_end = 0 /\ iteration = <<>>
    /\ ordered = NotRun /\ drawn = NotRun
IdleLay == IdleWid /\ IdleBar

----------------------------------------------------------------------------
(* Scenario 1: tokenize_string on one input, then on the same payload in   *)
(* one more pair of braces (tests/test_tokenization.rs:104-110, 147-153).  *)

TokChars == {"{", "}", "&", "1", "2"}

\* tests/test_tokenization.rs:126, 114, 149
TestPayloads ==
    { <<"1","&","{","2","&","3","&","{","5","8","&","6","7","}",
        "f","o","o","}","b","a","r","&","4">>,
      <<"1","&","{","2","&","3","&","}","&","4">>,
      <<"{","1","&","2","}","&","{","3","&","4","}">> }

Payloads == SeqsUpTo(TokChars, MaxLen) \cup TestPayloads

TokInputs == {<<>>} \cup {<<c>> \o p : c \in {"n", "g"}, p \in Payloads}

InitTok ==
    /\ pc = "tokenize"
    /\ input \in TokInputs
    /\ start = "n"
    /\ result = NotRun
    /\ wrapped = NotRun
    /\ IdleMix /\ IdleStr /\ IdleMag /\ IdleLay

TokenizeString ==
    /\ pc = "tokenize"
    /\ result' = tokenize_string(input, start)
    /\ pc' = "tokenized"
    /\ UNCHANGED <<input, start, wrapped>>
    /\ UNCHANGED <<mixVars, strVars, magVars, layVars>>

\* the payload of input, wrapped in one more group
Wrap(in) == <<Head(in), "{">> \o Tail(in) \o <<"}">>

TokenizeWrapped ==
    /\ pc = "tokenized"
    /\ input /= <<>>
    /\ wrapped' = tokenize_string(Wrap(input), start)
    /\ pc' = "compared"
    /\ UNCHANGED <<input, start, result>>
    /\ UNCHANGED <<mixVars, strVars, magVars, layVars>>

NextTok == TokenizeString \/ TokenizeWrapped

SpecTok == InitTok /\ [][NextTok]_vars

----------------------------------------------------------------------------
(* What the claims say, stated on the text of the input alone.             *)

Payload(in) == Tail(in)

\* brace depth after the first i characters of s
Depth(s, i) ==
    Cardinality({j \in 1..i : s[j] = "{"})
        - Cardinality({j \in 1..i : s[j] = "}"})

Balanced(s) ==
    /\ \A i \in 1..Len(s) : Depth(s, i) >= 0
    /\ Depth(s, Len(s)) = 0

GrammarError(in, st) ==
    \/ in = <<>>
    \/ Head(in) /= st
    \/ \E i \in 1..Len(Payload(in)) : Depth(Payload(in), i) < 0
    \/ Depth(Payload(in), Len(Payload(in))) /= 0

\* s is one group: its first '{' is closed by its last character
WhollyEnclosed(s) ==
    /\ Len(s) >= 2
    /\ s[1] = "{" /\ s[Len(s)] = "}"
    /\ \A i \in 1..(Len(s) - 1) : Depth(s, i) >= 1

NoBraces(s) == \A i \in 1..Len(s) : s[i] \notin {"{", "}"}

NumAmp(s) == Cardinality({i \in 1..Len(s) : s[i] = "&"})

\* position of the n-th '&' of s; 0 for n = 0, Len(s) + 1 past the last one
AmpPos(s, n) ==
    IF n = 0 THEN 0
    ELSE IF n > NumAmp(s) THEN Len(s) + 1
    ELSE CHOOSE q \in 1..Len(s) :
            s[q] = "&" /\ Cardinality({r \in 1..q : s[r] = "&"}) = n

\* the n-th '&'-separated segment of s, n in 1..NumAmp(s) + 1
Segment(s, n) == SubSeq(s, AmpPos(s, n - 1) + 1, AmpPos(s, n) - 1)

SegmentTokens(s) == [n \in 1..(NumAmp(s) + 1) |-> Token(Segment(s, n))]

Accepted == pc /= "tokenize" /\ result.tag = "Ok"

----------------------------------------------------------------------------
----------------------------------------------------------------------------
\* C4: for a brace-balanced payload P that is not wholly enclosed by one
\* outer brace pair, tokenize_string("n{" + P + "}") and
\* tokenize_string("n" + P) return the same Group; and a leading group that
\* closes before the last character of the payload is not stripped.
C4_WrapperTransparent ==
    /\ (/\ pc = "compared"
        /\ Head(input) = start
        /\ Balanced(Payload(input))
        /\ ~WhollyEnclosed(Payload(input)))
       => (wrapped.tag = "Ok" /\ wrapped = result)
    /\ (/\ pc /= "tokenize"
        /\ input /= <<>> /\ Head(input) = start
        /\ Balanced(Payload(input))
        /\ Len(Payload(input)) >= 1 /\ Payload(input)[1] = "{"
        /\ \E i \in 1..(Len(Payload(input)) - 1) :
               Depth(Payload(input), i) = 0)
       => result = Ok(parse_group(Payload(input), 1).group)

\* the payload starts with '{' and ends with '}' without being one group
C4_Witness ==
    /\ pc = "compared"
    /\ Head(input) = start
    /\ Balanced(Payload(input))
    /\ ~WhollyEnclosed(Payload(input))
    /\ Len(Payload(input)) >= 2
    /\ Payload(input)[1] = "{"
    /\ Payload(input)[Len(Payload(input))] = "}"
    /\ wrapped = result /\ result.tag = "Ok"

----------------------------------------------------------------------------
\* C5: for a payload without braces the Group holds only Tokens, as many as
\* the payload has '&' plus one, the i-th being the i-th '&'-separated
\* segment (empty for an omitted slot); "n{&&&}" gives four empty Tokens.
C5_SplitOnAmpersand ==
    /\ (/\ pc /= "tokenize"
        /\ input /= <<>> /\ Head(input) = start
        /\ NoBraces(Payload(input)))
       => /\ result.tag = "Ok"
          /\ result.val.value = None
          /\ Len(result.val.components) = NumAmp(Payload(input)) + 1
          /\ result.val.components = SegmentTokens(Payload(input))
    /\ (pc /= "tokenize" /\ input = <<"n", "{", "&", "&", "&", "}">>)
       => result = Ok(Group(<<Token(<<>>), Token(<<>>),
                              Token(<<>>), Token(<<>>)>>, None))

\* a brace-free payload with an omitted slot at the start, between two
\* adjacent '&' and at the end
C5_Witness ==
    /\ pc = "tokenized"
    /\ input = <<"n", "&", "1", "&", "&">>
    /\ Head(input) = start
    /\ Len(result.val.components) = 4

----------------------------------------------------------------------------
\* every Group of the tree, the root included, has a component
RECURSIVE AllGroupsNonEmpty(_)
AllGroupsNonEmpty(g) ==
    /\ Len(g.components) >= 1
    /\ \A i \in 1..Len(g.components) :
           g.components[i].kind = "Group"
               => AllGroupsNonEmpty(g.components[i])

\* C6: every Group produced by tokenize_string, at the top level and at
\* every nesting depth, has at least one component (an empty group body
\* yields one empty-string Token, never an empty component list).
C6_EveryGroupHasAComponent ==
    Accepted => AllGroupsNonEmpty(result.val)

----------------------------------------------------------------------------
\* the characters of s from p up to the next '&' or '}' or the end
ValueRun(s, p) ==
    LET stops == {q \in p..Len(s) : s[q] \in {"&", "}"}}
        e == IF stops = {} THEN Len(s) + 1
             ELSE CHOOSE q \in stops : \A r \in stops : q <= r
    IN  SubSeq(s, p, e - 1)

\* s = A { B } V R: a brace-free A that is empty or ends with '&', a group
\* with brace-free body B from i to j, its trailing characters V
GroupAt(s, i, j) ==
    /\ i < j /\ s[i] = "{" /\ s[j] = "}"
    /\ NoBraces(SubSeq(s, 1, i - 1))
    /\ (i = 1 \/ s[i - 1] = "&")
    /\ NoBraces(SubSeq(s, i + 1, j - 1))

\* C7: the characters after a nested group's '}' up to the next '&' or '}'
\* or the end are that Group's value (None when there are none) and are
\* not emitted as a sibling Token of the enclosing group.
C7_TrailingValue ==
    /\ (Accepted /\ ~WhollyEnclosed(Payload(input))) =>
         \A i, j \in 1..Len(Payload(input)) :
            GroupAt(Payload(input), i, j) =>
              LET s == Payload(input)
                  A == SubSeq(s, 1, i - 1)
                  V == ValueRun(s, j + 1)
                  R == SubSeq(s, j + 1 + Len(V), Len(s))
                  comps == result.val.components
                  at == NumAmp(A) + 1
              IN  /\ Len(comps) >= at
                  /\ \A n \in 1..NumAmp(A) : comps[n] = Token(Segment(A, n))
                  /\ comps[at].kind = "Group"
                  /\ comps[at].value = IF V = <<>> THEN None ELSE Some(V)
                  /\ (NoBraces(V) /\ NoBraces(R)) =>
                        /\ Len(comps) = at + NumAmp(R)
                        /\ \A n \in 1..NumAmp(R) :
                              comps[at + n] = Token(Segment(Tail(R), n))
    /\ (pc /= "tokenize"
          /\ input = <<"n","1","&","{","2","&","3","&","{","5","8","&",
                       "6","7","}","f","o","o","}","b","a","r","&","4">>)
       => /\ result.tag = "Ok"
          /\ Len(result.val.components) = 3
          /\ result.val.components[2].value = Some(<<"b","a","r">>)
          /\ result.val.components[2].components[3].value
                = Some(<<"f","o","o">>)

\* a group with a value, a Token before it and a Token after it
C7_Witness ==
    /\ pc = "tokenized"
    /\ input = <<"n", "&", "{", "}", "1", "&">>
    /\ result.tag = "Ok"
    /\ Len(result.val.components) = 3
    /\ result.val.components[2].value = Some(<<"1">>)

RECURSIVE TextOf(_)
\* the text of a component, read from left to right: a token's value, or
\* the texts of a group's components followed by the group's value
TextOf(component) ==
    IF component.kind = "Token" THEN component.value
    ELSE Flatten([i \in 1..Len(component.components) |->
                     TextOf(component.components[i])])
             \o (IF component.value = None THEN <<>>
                 ELSE component.value[1])

\* s without the characters that structure it
Letters(s) == SelectSeq(s, LAMBDA c : c \notin {"{", "}", "&"})

\* C26: for every accepted payload the components of each Group are in
\* the order in which their text is written in the payload; text written
\* directly before a '{' is not emitted after the group that follows it.
C26_OrderPreserved ==
    Accepted => Letters(TextOf(result.val)) = Letters(Payload(input))

----------------------------------------------------------------------------
(* Scenario 2: generate_mixture_tree(indexing, concentration),             *)
(* tokenize.rs:368-378, one action per statement.                          *)

\* the lexemes the strings are made of: an index, a well-formed content
\* token, a malformed one
IndexingPieces == {<<"{">>, <<"}">>, <<"&">>, <<"1">>}
ConcentrationPieces ==
    {<<"{">>, <<"}">>, <<"&">>, <<"5", "p", "p", "0">>, <<"x">>}

\* every brace-balanced string of up to MaxPieces lexemes, and the
\* unbalanced ones of up to two
MixturePayloads(pieces) ==
    {Flatten(ps) : ps \in {qs \in SeqsUpTo(pieces, MaxPieces) :
                              Len(qs) <= 2 \/ Balanced(Flatten(qs))}}

IndexingInputs ==
    {<<>>} \cup {<<"n">> \o p : p \in MixturePayloads(IndexingPieces)}
ConcentrationInputs ==
    {<<>>} \cup {<<"g">> \o p : p \in MixturePayloads(ConcentrationPieces)}

InitMix ==
    /\ pc = "generate"
    /\ \E pair \in IndexingInputs \X ConcentrationInputs :
          indexing = pair[1] /\ concentration = pair[2]
    /\ i_tree = NotRun /\ c_tree = NotRun /\ mixture = NotRun
    /\ IdleTok /\ IdleStr /\ IdleMag /\ IdleLay

\* tokenize.rs:369-374
CheckEmpty ==
    /\ pc = "generate"
    /\ IF indexing = <<>>
       THEN mixture' = Err("Empty indexing part") /\ pc' = "failed"
       ELSE IF concentration = <<>>
       THEN mixture' = Err("Empty concentration part") /\ pc' = "failed"
       ELSE mixture' = mixture /\ pc' = "tokenize_indexing"
    /\ UNCHANGED <<indexing, concentration, i_tree, c_tree>>
    /\ UNCHANGED <<tokVars, strVars, magVars, layVars>>

\* tokenize.rs:375
TokenizeIndexing ==
    /\ pc = "tokenize_indexing"
    /\ i_tree' = tokenize_string(indexing, "n")
    /\ IF i_tree'.tag = "Ok"
       THEN mixture' = mixture /\ pc' = "tokenize_concentration"
       ELSE mixture' = i_tree' /\ pc' = "failed"
    /\ UNCHANGED <<indexing, concentration, c_tree>>
    /\ UNCHANGED <<tokVars, strVars, magVars, layVars>>

\* tokenize.rs:376
TokenizeConcentration ==
    /\ pc = "tokenize_concentration"
    /\ c_tree' = tokenize_string(concentration, "g")
    /\ IF c_tree'.tag = "Ok"
       THEN mixture' = mixture /\ pc' = "combine"
       ELSE mixture' = c_tree' /\ pc' = "failed"
    /\ UNCHANGED <<indexing, concentration, i_tree>>
    /\ UNCHANGED <<tokVars, strVars, magVars, layVars>>

\* tokenize.rs:377
CombineGroups ==
    /\ pc = "combine"
    /\ mixture' = combine_groups(i_tree.val, c_tree.val)
    /\ pc' = "combined"
    /\ UNCHANGED <<indexing, concentration, i_tree, c_tree>>
    /\ UNCHANGED <<tokVars, strVars, magVars, layVars>>

NextMix ==
    CheckEmpty \/ TokenizeIndexing \/ TokenizeConcentration \/ CombineGroups

SpecMix == InitMix /\ [][NextMix]_vars

----------------------------------------------------------------------------
\* the two trees have the same nesting, and the same kind and number of
\* components at every position
RECURSIVE SameShape(_, _)
SameShape(g1, g2) ==
    /\ Len(g1.components) = Len(g2.components)
    /\ \A i \in 1..Len(g1.components) :
          /\ g1.components[i].kind = g2.components[i].kind
          /\ g1.components[i].kind = "Group"
                => SameShape(g1.components[i], g2.components[i])

IsMismatch(r) == r.tag = "Err" /\ r.val \in {MismatchedCount, MismatchedKind}

\* every Token and every group value of the tree is empty or a well-formed
\* Content
RECURSIVE AllContentsParse(_)
AllContentsParse(g) ==
    /\ g.value /= None => from_str(g.value[1]).tag = "Ok"
    /\ \A i \in 1..Len(g.components) :
          IF g.components[i].kind = "Group"
          THEN AllContentsParse(g.components[i])
          ELSE g.components[i].value /= <<>>
                  => from_str(g.components[i].value).tag = "Ok"

----------------------------------------------------------------------------
\* m is the Mixture the claim describes for the Groups ig and cg
RECURSIVE CombinedAsSpecified(_, _, _)
CombinedAsSpecified(ig, cg, m) ==
    /\ m.kind = "Mixture"
    /\ Len(m.ingredients) = Len(ig.components)
    /\ Len(m.ingredients) = Len(cg.components)
    /\ m.content = None <=> cg.value = None
    /\ cg.value /= None => m.content = Some(from_str(cg.value[1]).val)
    /\ \A i \in 1..Len(m.ingredients) :
          LET ic == ig.components[i]
              cc == cg.components[i]
              x == m.ingredients[i]
          IN  IF ic.kind = "Token"
              THEN /\ cc.kind = "Token"
                   /\ x.kind = "Substance"
                   /\ x.index = None <=> ic.value = <<>>
                   /\ ic.value /= <<>> => x.index = Some(ic.value)
                   /\ x.content = None <=> cc.value = <<>>
                   /\ cc.value /= <<>>
                         => x.content = Some(from_str(cc.value).val)
              ELSE /\ cc.kind = "Group"
                   /\ CombinedAsSpecified(ic, cc, x)

\* C3: on trees of the same shape the result keeps order and count; a
\* Token/Token pair is a Substance with index None exactly for an empty
\* indexing token and content None exactly for an empty concentration
\* token (else its parsed Content); a Group/Group pair is a Mixture of the
\* combined children with content None exactly when the concentration
\* Group has no value (else its parsed Content).
C3_CombinedTree ==
    (pc = "combined" /\ mixture.tag = "Ok") =>
        /\ SameShape(i_tree.val, c_tree.val)
        /\ CombinedAsSpecified(i_tree.val, c_tree.val, mixture.val)

\* a Mixture with a content inside the result, next to nothing else
C3_Witness ==
    /\ pc = "combined" /\ mixture.tag = "Ok"
    /\ \E i \in 1..Len(mixture.val.ingredients) :
          LET x == mixture.val.ingredients[i]
          IN  /\ x.kind = "Mixture"
              /\ x.content /= None
              /\ Len(x.ingredients) = 1
              /\ x.ingredients[1].kind = "Substance"
              /\ x.ingredients[1].index = Some(<<"1">>)
              /\ x.ingredients[1].content
                    = Some(Content(5, "PP", 0))

\* an empty indexing token and an empty concentration token were combined
C3_WitnessEmpty ==
    /\ pc = "combined" /\ mixture.tag = "Ok"
    /\ \E i \in 1..Len(mixture.val.ingredients) :
          mixture.val.ingredients[i] = Substance(None, None)

----------------------------------------------------------------------------
(* Scenario 3: Content::from_str(token), tokenize.rs:228-235.              *)

\* what may stand before the value: the qualifiers, and other characters
ValuePrefixes ==
    {<<>>, <<"~">>, <<"<">>, <<">">>, <<"<", "=">>, <<">", "=">>,
     <<"=">>, <<"~", "<">>, <<"+">>, <<"~", "+">>, <<"-">>}

ValueBodies == SeqsUpTo({"5", "7", ":"}, MaxValueLen)

\* the eight infixes, and none, half of one, a doubled one, two that overlap
InfixTexts ==
    {Infixes[i][1] : i \in 1..Len(Infixes)}
        \cup {<<>>, <<"p">>, <<"p", "p", "p", "p">>, <<"w", "v", "p">>}

MagnitudeTexts ==
    SeqsUpTo({"2", "-"}, MaxMagnitudeLen) \cup {<<"0">>, <<"+", "2">>}

\* tests/test_content.rs:36, 87; tests/test_tokenization.rs:253, 266; a
\* range of three; 2^64 as the value; 2^63 as the magnitude
TestTokens ==
    { <<"6", "p", "p", "1">>,
      <<"2", "5", "w", "v", "-", "2">>,
      <<"5", ":", "7", "w", "f", "-", "3">>,
      <<"2", ":", "5", "p", "p", "0">>,
      <<"5", ":", "7", ":", "5", "p", "p", "0">>,
      <<"1","8","4","4","6","7","4","4","0","7","3","7","0","9","5","5",
        "1","6","1","6","p","p","0">>,
      <<"5","p","p","9","2","2","3","3","7","2","0","3","6","8","5","4",
        "7","7","5","8","0","8">> }

ContentTokens ==
    {pre \o body \o infix \o mag :
        pre \in ValuePrefixes, body \in ValueBodies,
        infix \in InfixTexts, mag \in MagnitudeTexts}
        \cup TestTokens

InitStr ==
    /\ pc = "parse"
    /\ token_text \in ContentTokens
    /\ parsed = NotRun
    /\ IdleTok /\ IdleMix /\ IdleMag /\ IdleLay

FromStr ==
    /\ pc = "parse"
    /\ parsed' = from_str(token_text)
    /\ pc' = "parsed"
    /\ UNCHANGED token_text
    /\ UNCHANGED <<tokVars, mixVars, magVars, layVars>>

NextStr == FromStr

SpecStr == InitStr /\ [][NextStr]_vars

----------------------------------------------------------------------------
(* Scenario 4: value_at_magnitude and calculate_capacity on a Content,     *)
(* tokenize.rs:237-279, in a build with or without overflow checks.        *)

Concentrations == {"PP", "WV", "WF", "RF", "MF", "VP", "MR", "MB"}

Receivers ==
    {Content(v, c, m) : v \in {0, 1, 2, 25}, c \in Concentrations,
                        m \in -2..2}

Targets == (0 - MaxBelow)..3

InitMag ==
    /\ pc = "content"
    /\ receiver \in Receivers
    /\ checked_build \in BOOLEAN
    /\ target = 0
    /\ at_magnitude = NotRun
    /\ capacity = NotRun
    /\ IdleTok /\ IdleMix /\ IdleStr /\ IdleLay

ValueAtMagnitude ==
    /\ pc = "content"
    /\ \E m \in Targets :
          /\ target' = m
          /\ at_magnitude' = value_at_magnitude(receiver, m, checked_build)
    /\ pc' = "value_at_magnitude"
    /\ UNCHANGED <<receiver, checked_build, capacity>>
    /\ UNCHANGED <<tokVars, mixVars, strVars, layVars>>

CalculateCapacity ==
    /\ pc = "content"
    /\ \E m \in Targets :
          /\ target' = m
          /\ capacity' = calculate_capacity(receiver.concentration, m,
                                            checked_build)
    /\ pc' = "calculate_capacity"
    /\ UNCHANGED <<receiver, checked_build, at_magnitude>>
    /\ UNCHANGED <<tokVars, mixVars, strVars, layVars>>

NextMag == ValueAtMagnitude \/ CalculateCapacity

SpecMag == InitMag /\ [][NextMag]_vars

----------------------------------------------------------------------------
(* What C8 says of a token, stated on its text alone.                      *)

IsDigits(s) == s /= <<>> /\ \A i \in 1..Len(s) : s[i] \in Digits

RECURSIVE StripZeros(_)
StripZeros(s) ==
    IF Len(s) > 1 /\ s[1] = "0" THEN StripZeros(Tail(s)) ELSE s

\* a <= b for two digit strings without leading zeros
DecLeq(a, b) ==
    \/ Len(a) < Len(b)
    \/ /\ Len(a) = Len(b)
       /\ \/ a = b
          \/ \E i \in 1..Len(a) :
                /\ DigitVal(a[i]) < DigitVal(b[i])
                /\ SubSeq(a, 1, i - 1) = SubSeq(b, 1, i - 1)

\* 2^64 - 1, 2^63 - 1 and 2^63
UsizeMax ==
    <<"1","8","4","4","6","7","4","4","0","7","3","7","0","9","5","5",
      "1","6","1","5">>
IsizeMax ==
    <<"9","2","2","3","3","7","2","0","3","6","8","5","4","7","7","5",
      "8","0","7">>
IsizeMinAbs ==
    <<"9","2","2","3","3","7","2","0","3","6","8","5","4","7","7","5",
      "8","0","8">>

RECURSIVE DecValue(_)
DecValue(s) ==
    IF s = <<>> THEN 0
    ELSE DecValue(SubSeq(s, 1, Len(s) - 1)) * 10 + DigitVal(s[Len(s)])

Unsigned(s) == IF s /= <<>> /\ s[1] = "+" THEN Tail(s) ELSE s
Unsign(s) == IF s /= <<>> /\ s[1] \in {"+", "-"} THEN Tail(s) ELSE s

\* a non-negative integer in decimal, with or without a '+' before it;
\* unless literal, one that fits a usize
NonNegativeInteger(s, literal) ==
    /\ IsDigits(Unsigned(s))
    /\ literal \/ DecLeq(StripZeros(Unsigned(s)), UsizeMax)

\* a signed integer in decimal, with or without a sign before it; unless
\* literal, one that fits an isize
SignedInteger(s, literal) ==
    /\ IsDigits(Unsign(s))
    /\ literal \/ DecLeq(StripZeros(Unsign(s)),
                         IF s[1] = "-" THEN IsizeMinAbs ELSE IsizeMax)

Qualifiers == {<<"~">>, <<"<">>, <<">">>, <<"<", "=">>, <<">", "=">>}

Qualified(s, literal) ==
    \E q \in Qualifiers :
        /\ StartsWith(s, q)
        /\ NonNegativeInteger(SubSeq(s, Len(q) + 1, Len(s)), literal)

IsRange(s, literal) ==
    \E i \in 1..Len(s) :
        /\ s[i] = ":"
        /\ NonNegativeInteger(SubSeq(s, 1, i - 1), literal)
        /\ NonNegativeInteger(SubSeq(s, i + 1, Len(s)), literal)

ValueSegment(s, literal) ==
    \/ NonNegativeInteger(s, literal)
    \/ Qualified(s, literal)
    \/ IsRange(s, literal)

\* tok is a value segment, the n-th infix at position i, a signed integer
DescribedAt(tok, n, i, literal) ==
    /\ SubSeq(tok, i, i + 1) = Infixes[n][1]
    /\ ValueSegment(SubSeq(tok, 1, i - 1), literal)
    /\ SignedInteger(SubSeq(tok, i + 2, Len(tok)), literal)

Described(tok, literal) ==
    \E n \in 1..Len(Infixes), i \in 1..(Len(tok) - 1) :
        DescribedAt(tok, n, i, literal)

\* the digits of a value segment that is no range, its qualifier and sign
\* taken off
ValueDigits(s) ==
    IF \E q \in Qualifiers : StartsWith(s, q)
    THEN LET q == CHOOSE r \in Qualifiers :
                    /\ StartsWith(s, r)
                    /\ \A t \in Qualifiers : StartsWith(s, t) => Len(t) <= Len(r)
         IN  Unsigned(SubSeq(s, Len(q) + 1, Len(s)))
    ELSE Unsigned(s)

\* the Content the claim describes for a described token
ResultAsDescribed(tok, c, literal) ==
    LET at == CHOOSE ni \in (1..Len(Infixes)) \X (1..(Len(tok) - 1)) :
                  DescribedAt(tok, ni[1], ni[2], literal)
        seg1 == SubSeq(tok, 1, at[2] - 1)
        seg2 == SubSeq(tok, at[2] + 2, Len(tok))
    IN  /\ c.concentration = Infixes[at[1]][2]
        /\ c.magnitude = IF seg2[1] = "-" THEN 0 - DecValue(Unsign(seg2))
                         ELSE DecValue(Unsign(seg2))
        /\ ~IsRange(seg1, literal) => c.value = DecValue(ValueDigits(seg1))

\* C8 as stated: Content::from_str succeeds exactly when the token is a
\* value segment (a non-negative integer, one behind a qualifier, or a
\* range a:b), one of the eight infixes and a signed integer; it returns
\* the infix's kind, the magnitude and a value that does not depend on the
\* qualifier; in every other case it returns Err.
C8_SucceedsExactlyAsDescribed ==
    pc = "parsed" =>
        /\ parsed.tag = "Ok" <=> Described(token_text, TRUE)
        /\ parsed.tag /= "Ok" => parsed.tag = "Err"
        /\ parsed.tag = "Ok" /\ Described(token_text, TRUE)
              => ResultAsDescribed(token_text, parsed.val, TRUE)

\* C8 as amended: the same, where the non-negative integers are those that
\* fit a usize and the signed integers those that fit an isize, each in
\* decimal, the former with or without a '+' before it; a token whose
\* integer does not fit is answered with Err.
C8_SucceedsExactlyWithinRange ==
    pc = "parsed" =>
        /\ parsed.tag = "Ok" <=> Described(token_text, FALSE)
        /\ parsed.tag /= "Ok" => parsed.tag = "Err"
        /\ parsed.tag = "Ok" => ResultAsDescribed(token_text, parsed.val, FALSE)

\* a value behind the two-character qualifier was parsed
C8_Witness ==
    /\ pc = "parsed"
    /\ token_text = <<"<", "=", "5", "7", "m", "b", "-", "2">>
    /\ parsed = Ok(Content(57, "MB", -2))

----------------------------------------------------------------------------
(* Natural numbers of any size, as limbs, for the exact products.          *)

RECURSIVE BigMul10(_, _)
\* x * 10 + carry
BigMul10(x, carry) ==
    IF x = <<>> THEN (IF carry = 0 THEN <<>> ELSE <<carry>>)
    ELSE LET t == x[1] * 10 + carry
         IN  <<t % LimbBase>> \o BigMul10(Tail(x), t \div LimbBase)

RECURSIVE BigMulPow10(_, _)
BigMulPow10(x, k) ==
    IF k = 0 THEN x ELSE BigMulPow10(BigMul10(x, 0), k - 1)

RECURSIVE Trim(_)
Trim(x) ==
    IF x /= <<>> /\ x[Len(x)] = 0 THEN Trim(SubSeq(x, 1, Len(x) - 1)) ELSE x

\* v * 10^k
Exact(v, k) == Trim(BigMulPow10(<<v % LimbBase, v \div LimbBase>>, k))

\* C9: value_at_magnitude(target) returns value unchanged when target is
\* the Content's magnitude, exactly value * 10^(magnitude - target),
\* without wrap-around or abort, for every smaller target, and aborts for
\* every larger one.
C9_ExactValueAtMagnitude ==
    pc = "value_at_magnitude" =>
        /\ target = receiver.magnitude =>
              at_magnitude = Ok(U64(receiver.value))
        /\ target < receiver.magnitude =>
              /\ at_magnitude.tag = "Ok"
              /\ Trim(at_magnitude.val)
                    = Exact(receiver.value, receiver.magnitude - target)
        /\ target > receiver.magnitude => at_magnitude.tag = "Abort"

\* C10: calculate_capacity(kind, m) is Absolute(10^(2 - m)) for PP and MF
\* for every m <= 1 and aborts for m > 1, Absolute(10^(-m)) for WV, WF and
\* RF for every m <= -1 and aborts for m > -1, Relative for VP and
\* Unestimated for MR and MB.
C10_CapacityOfKind ==
    pc = "calculate_capacity" =>
        LET c == receiver.concentration
        IN  /\ c \in {"PP", "MF"} =>
                  IF target > 1 THEN capacity.tag = "Abort"
                  ELSE /\ capacity.tag = "Ok"
                       /\ capacity.val.kind = "Absolute"
                       /\ Trim(capacity.val.n) = Exact(1, 2 - target)
            /\ c \in {"WV", "WF", "RF"} =>
                  IF target > -1 THEN capacity.tag = "Abort"
                  ELSE /\ capacity.tag = "Ok"
                       /\ capacity.val.kind = "Absolute"
                       /\ Trim(capacity.val.n) = Exact(1, 0 - target)
            /\ c = "VP" => capacity = Ok(Relative)
            /\ c \in {"MR", "MB"} => capacity = Ok(Unestimated)

----------------------------------------------------------------------------
\* the value segment of a described token
ValueSegmentOf(tok) ==
    LET at == CHOOSE ni \in (1..Len(Infixes)) \X (1..(Len(tok) - 1)) :
                  DescribedAt(tok, ni[1], ni[2], FALSE)
    IN  SubSeq(tok, 1, at[2] - 1)

\* the two endpoints of a range a:b
Endpoints(seg) ==
    LET i == CHOOSE j \in 1..Len(seg) : seg[j] = ":"
    IN  <<DecValue(Unsigned(SubSeq(seg, 1, i - 1))),
          DecValue(Unsigned(SubSeq(seg, i + 1, Len(seg))))>>

\* C11: for a value segment a:b, Content::from_str gives the value
\* (a + b) / 2 rounded down ("5:7wf-3" gives 6, "2:5pp0" gives 3).
C11_RangeMidpoint ==
    (/\ pc = "parsed"
     /\ parsed.tag = "Ok"
     /\ Described(token_text, FALSE)
     /\ IsRange(ValueSegmentOf(token_text), FALSE)) =>
        LET ab == Endpoints(ValueSegmentOf(token_text))
        IN  parsed.val.value = (ab[1] + ab[2]) \div 2

----------------------------------------------------------------------------
(* f32, layouts.rs:11.  A width is kept as the exact fraction n / d that   *)
(* the f32 rounds: d = 0 with n = 1 is +infinity, d = 0 with n = 0 is NaN. *)
(* No width of the program is negative.  Rounding to 24 bits is left out:  *)
(* the widths compared below are quotients of small integers.              *)

RECURSIVE GCD(_, _)
GCD(a, b) == IF b = 0 THEN a ELSE GCD(b, a % b)

F32(n, d) ==
    IF d = 0 THEN [n |-> IF n = 0 THEN 0 ELSE 1, d |-> 0]
    ELSE IF n = 0 THEN [n |-> 0, d |-> 1]
    ELSE [n |-> n \div GCD(n, d), d |-> d \div GCD(n, d)]

\* usize as f32
AsF32(k) == F32(k, 1)
Infinity == F32(1, 0)
NaN == F32(0, 0)

\* a / b: x / 0 is +infinity, 0 / 0 and infinity / infinity are NaN
FDiv(a, b) == F32(a.n * b.d, a.d * b.n)
\* a * b: infinity * 0 is NaN
FMul(a, b) == F32(a.n * b.n, a.d * b.d)
\* a + b
FAdd(a, b) ==
    IF a = Infinity /\ b = Infinity THEN Infinity
    ELSE F32(a.n * b.d + b.n * a.d, a.d * b.d)

\* w == 0f32, false for NaN
IsZero(w) == w.n = 0 /\ w.d /= 0
IsFinite(w) == w.d /= 0
IsPositive(w) == w.n > 0

----------------------------------------------------------------------------
(* Width calculator: Picture::calculate_widths, layouts.rs:695-846.  An    *)
(* Ingredient::Compound of layouts.rs is the Mixture of tokenize.rs.       *)

\* WidthsResult { widths, unestimated_capacity }
WidthsResult(ws, u) == [widths |-> ws, unestimated_capacity |-> u]

\* layouts.rs:700-720: the components that have a Content
Known(components) == SelectSeq(components, LAMBDA c : c.content /= None)

\* layouts.rs:722-728: seen_concentrations, in the order of first occurrence
RECURSIVE Seen(_, _, _)
Seen(known, i, seen_concentrations) ==
    IF i > Len(known) THEN seen_concentrations
    ELSE Seen(known, i + 1,
              IF \E j \in 1..Len(seen_concentrations) :
                    seen_concentrations[j] = known[i].content[1].concentration
              THEN seen_concentrations
              ELSE Append(seen_concentrations,
                          known[i].content[1].concentration))

\* layouts.rs:739-746: the magnitudes of the known components and the
\* maximum viable one, then their minimum
Magnitudes(known, conc) ==
    [i \in 1..Len(known) |-> known[i].content[1].magnitude]
        \o maximum_viable_magnitude(conc)

\* the first magnitude in place of the least
MinOf_First(ms) == ms[1]

MinOf(ms) ==
    CHOOSE m \in {ms[i] : i \in 1..Len(ms)} :
        \A i \in 1..Len(ms) : m <= ms[i]

RECURSIVE SumOf(_)
SumOf(values) ==
    IF values = <<>> THEN 0 ELSE Head(values) + SumOf(Tail(values))

\* layouts.rs:804-807, 819-822: the size of one component
SizeOf(component, min_magnitude, default_width, overflow_checks) ==
    IF component.content = None THEN default_width
    ELSE AsF32(ToNat(value_at_magnitude(component.content[1], min_magnitude,
                                        overflow_checks).val))

\* layouts.rs:823-826
IndexOf(substance) ==
    IF substance.index = None THEN <<>> ELSE substance.index[1]

\* layouts.rs:810-812: the widths of a compound's ingredients, each times
\* the compound's own size
Scaled(ws, size) ==
    [i \in 1..Len(ws) |-> <<ws[i][1], FMul(ws[i][2], size)>>]

RECURSIVE calculate_widths(_, _)
RECURSIVE WidthsFrom(_, _, _, _, _, _, _)
RECURSIVE AfterCompound(_, _, _, _, _, _, _, _, _)

\* AfterCompound, without taking the flag of the recursive call
AfterCompound_OwnFlagOnly(components, i, min_magnitude, default_width, sum, acc, overflow_checks, size, inner) ==
    IF inner.tag /= "Ok" THEN inner
    ELSE WidthsFrom(components, i + 1, min_magnitude, default_width, sum,
                    WidthsResult(acc.widths \o Scaled(inner.val.widths, size),
                                 acc.unestimated_capacity),
                    overflow_checks)

\* layouts.rs:808-816: the result of the recursive call taken into result
AfterCompound(components, i, min_magnitude, default_width, sum, acc, overflow_checks, size, inner) ==
    IF inner.tag /= "Ok" THEN inner
    ELSE WidthsFrom(components, i + 1, min_magnitude, default_width, sum,
                    WidthsResult(acc.widths \o Scaled(inner.val.widths, size),
                                 acc.unestimated_capacity
                                     \/ inner.val.unestimated_capacity),
                    overflow_checks)

\* layouts.rs:801-830: the final loop, from component i on
WidthsFrom(components, i, min_magnitude, default_width, sum, acc, overflow_checks) ==
    IF i > Len(components) THEN Ok(acc)
    ELSE IF components[i].kind = "Mixture"
    THEN AfterCompound(components, i, min_magnitude, default_width, sum, acc,
                       overflow_checks,
                       FDiv(SizeOf(components[i], min_magnitude,
                                   default_width, overflow_checks),
                            AsF32(sum)),
                       calculate_widths(components[i].ingredients,
                                        overflow_checks))
    ELSE WidthsFrom(components, i + 1, min_magnitude, default_width, sum,
                    WidthsResult(
                        Append(acc.widths,
                               <<IndexOf(components[i]),
                                 FDiv(SizeOf(components[i], min_magnitude,
                                             default_width, overflow_checks),
                                      AsF32(sum))>>),
                        acc.unestimated_capacity),
                    overflow_checks)

\* Classified, with a single unknown child treated as several are
Classified_NeverAssigns(components, unknown, min_magnitude, sum, c, unestimated_capacity, overflow_checks) ==
    IF sum >= c
    THEN WidthsFrom(components, 1, min_magnitude, AsF32(0), sum,
                    WidthsResult(<<>>, unestimated_capacity), overflow_checks)
    ELSE WidthsFrom(components, 1, min_magnitude, AsF32(0), sum,
                    WidthsResult(<< <<<<>>, FDiv(AsF32(c - sum), AsF32(sum))>> >>,
                                 unestimated_capacity),
                    overflow_checks)

\* layouts.rs:777-798: match (unknown, sum, capacity); c is the capacity
Classified(components, unknown, min_magnitude, sum, c, unestimated_capacity, overflow_checks) ==
    IF sum >= c
    THEN WidthsFrom(components, 1, min_magnitude, AsF32(0), sum,
                    WidthsResult(<<>>, unestimated_capacity), overflow_checks)
    ELSE IF unknown = 1
    THEN WidthsFrom(components, 1, min_magnitude,
                    FDiv(AsF32(c - sum), AsF32(unknown)), sum,
                    WidthsResult(<<>>, unestimated_capacity), overflow_checks)
    ELSE WidthsFrom(components, 1, min_magnitude, AsF32(0), sum,
                    WidthsResult(<< <<<<>>, FDiv(AsF32(c - sum), AsF32(sum))>> >>,
                                 unestimated_capacity),
                    overflow_checks)

\* layouts.rs:761-771: the capacity of the level
WithCapacity(components, unknown, min_magnitude, sum, cap, overflow_checks) ==
    IF cap.tag /= "Ok" THEN cap
    ELSE Classified(components, unknown, min_magnitude, sum,
                    IF cap.val.kind = "Absolute" THEN ToNat(cap.val.n)
                    ELSE sum,
                    cap.val.kind = "Unestimated", overflow_checks)

\* layouts.rs:748-760: the values of the known components and their sum
WithValues(components, unknown, conc, min_magnitude, values, overflow_checks) ==
    IF \E i \in 1..Len(values) : values[i].tag /= "Ok" THEN Abort
    ELSE WithCapacity(components, unknown, min_magnitude,
                      SumOf([i \in 1..Len(values) |-> ToNat(values[i].val)]),
                      calculate_capacity(conc, min_magnitude, overflow_checks),
                      overflow_checks)

\* layouts.rs:737-760
WithMagnitude(components, known, conc, min_magnitude, overflow_checks) ==
    WithValues(components, Len(components) - Len(known), conc, min_magnitude,
               [i \in 1..Len(known) |->
                   value_at_magnitude(known[i].content[1], min_magnitude,
                                      overflow_checks)],
               overflow_checks)

\* layouts.rs:722-746: more than one concentration panics (730-735), and so
\* does seen_concentrations[0] of an empty list (737) and the min() of an
\* empty list of magnitudes (746)
WithConcentrations(components, known, seen_concentrations, overflow_checks) ==
    IF Len(seen_concentrations) > 1 THEN Abort
    ELSE IF Len(seen_concentrations) = 0 THEN Abort
    ELSE WithMagnitude(components, known, seen_concentrations[1],
                       MinOf(Magnitudes(known, seen_concentrations[1])),
                       overflow_checks)

\* layouts.rs:695-846
calculate_widths(components, overflow_checks) ==
    WithConcentrations(components, Known(components),
                       Seen(Known(components), 1, <<>>), overflow_checks)

----------------------------------------------------------------------------
(* Scenario 5: generate_for_minchi (lib.rs:159-189) has built a Picture    *)
(* around the tree of generate_mixture_tree; Picture::generate              *)
(* (layouts.rs:52-347) hands it to draw_compound_bar, which starts with    *)
(* calculate_widths (layouts.rs:360).                                      *)

\* most ingredients of the top level
MaxIngredients == 3

\* 50pp0, 5pp1, 5pp2, 60pp0, 0pp0, 3mr0, 0vp0
LeafContents ==
    {Content(50, "PP", 0), Content(5, "PP", 1), Content(5, "PP", 2),
     Content(60, "PP", 0), Content(0, "PP", 0), Content(3, "MR", 0),
     Content(0, "VP", 0)}

Leaves ==
    {Substance(None, None), Substance(Some(<<"3">>), None)}
        \cup {Substance(Some(<<"1">>), Some(c)) : c \in LeafContents}

InnerLeaves ==
    {Substance(None, None),
     Substance(Some(<<"2">>), Some(Content(3, "MR", 0))),
     Substance(Some(<<"2">>), Some(Content(50, "PP", 0)))}

\* a nested compound of no (the "{}" of parse_group), one or two
\* ingredients, with or without a Content of its own
InnerCompounds ==
    {Mixture(is, c) :
        is \in {<<>>} \cup {<<a>> : a \in InnerLeaves}
                  \cup {<<a, b>> : a \in InnerLeaves, b \in InnerLeaves},
        c \in {None, Some(Content(50, "PP", 0))}}

\* compounds nested twice
DeepCompounds ==
    {Mixture(<<Mixture(<<Substance(Some(<<"2">>), Some(Content(3, "MR", 0)))>>,
                       Some(Content(50, "PP", 0))),
               Substance(None, None)>>,
             Some(Content(50, "PP", 0))),
     Mixture(<<Mixture(<<Substance(Some(<<"2">>), Some(Content(50, "PP", 0)))>>,
                       Some(Content(50, "PP", 0)))>>,
             None)}

Ingredients == Leaves \cup InnerCompounds \cup DeepCompounds

Trees ==
    {Mixture(is, None) : is \in SeqsUpTo(Ingredients, MaxIngredients)}

InitWid ==
    /\ pc = "generate_for_minchi"
    /\ mixture_info \in Trees
    /\ checked_build \in BOOLEAN
    /\ calculated = NotRun
    /\ generation = "none"
    /\ receiver = Content(0, "PP", 0) /\ target = 0
    /\ at_magnitude = NotRun /\ capacity = NotRun
    /\ IdleTok /\ IdleMix /\ IdleStr /\ IdleBar

\* lib.rs:183-188, layouts.rs:52-73: Ok(Picture::new(..)), then generate()
\* reaches draw_compound_bar
Generate ==
    /\ pc = "generate_for_minchi"
    /\ generation' = "draw_compound_bar"
    /\ pc' = "calculate_widths"
    /\ UNCHANGED <<mixture_info, calculated>>
    /\ UNCHANGED <<tokVars, mixVars, strVars, magVars, barVars>>

\* layouts.rs:360: self.calculate_widths(&compound.ingredients)
CalculateWidths ==
    /\ pc = "calculate_widths"
    /\ calculated' = calculate_widths(mixture_info.ingredients, checked_build)
    /\ pc' = "widths"
    /\ UNCHANGED <<mixture_info, generation>>
    /\ UNCHANGED <<tokVars, mixVars, strVars, magVars, barVars>>

\* layouts.rs:361-463: a panic of calculate_widths unwinds through
\* draw_compound_bar and generate (none of them catches it); otherwise
\* draw_compound_bar goes on to order and draw the widths
AfterWidths ==
    /\ pc = "widths"
    /\ generation' = IF calculated.tag = "Abort" THEN "panicked"
                     ELSE "draw_components"
    /\ pc' = "done"
    /\ UNCHANGED <<mixture_info, calculated>>
    /\ UNCHANGED <<tokVars, mixVars, strVars, magVars, barVars>>

NextWid == Generate \/ CalculateWidths \/ AfterWidths

SpecWid == InitWid /\ [][NextWid]_vars

----------------------------------------------------------------------------
(* What C12 to C17 say of one level, stated on the tree.                   *)

\* the concentration kinds of the direct children that have a Content
KindsOf(components) ==
    {components[i].content[1].concentration :
        i \in {j \in 1..Len(components) : components[j].content /= None}}

\* the children without a Content
UnknownOf(components) ==
    {i \in 1..Len(components) : components[i].content = None}

\* the level's minimum magnitude, of a level with one kind
LevelMagnitude(components) ==
    LET kind == CHOOSE k \in KindsOf(components) : TRUE
        ms == {components[i].content[1].magnitude :
                  i \in (1..Len(components)) \ UnknownOf(components)}
                 \cup {maximum_viable_magnitude(kind)[j] :
                          j \in 1..Len(maximum_viable_magnitude(kind))}
    IN  CHOOSE m \in ms : \A n \in ms : m <= n

\* the value of child i at the level's minimum magnitude
LevelValue(components, i) ==
    ToNat(value_at_magnitude(components[i].content[1],
                             LevelMagnitude(components), TRUE).val)

RECURSIVE SumOver(_, _)
\* the sum of the known children's values
SumOver(components, I) ==
    IF I = {} THEN 0
    ELSE LET i == CHOOSE j \in I : TRUE
         IN  LevelValue(components, i) + SumOver(components, I \ {i})

LevelSum(components) ==
    SumOver(components, (1..Len(components)) \ UnknownOf(components))

\* the level's capacity: 10^(2 - m) for PP and MF, 10^(-m) for WV, WF and
\* RF, the sum for VP, MR and MB
LevelCapacity(components) ==
    LET kind == CHOOSE k \in KindsOf(components) : TRUE
        cap == calculate_capacity(kind, LevelMagnitude(components), TRUE)
    IN  IF cap.val.kind = "Absolute" THEN ToNat(cap.val.n)
        ELSE LevelSum(components)

\* the number of entries calculate_widths emits for one child
EntriesOf(component) ==
    IF component.kind = "Substance" THEN 1
    ELSE Len(calculate_widths(component.ingredients, TRUE).val.widths)

RECURSIVE EntriesBefore(_, _)
EntriesBefore(components, i) ==
    IF i = 1 THEN 0
    ELSE EntriesBefore(components, i - 1) + EntriesOf(components[i - 1])

\* the entries of child i in the widths ws of its level, of which the
\* first `synthetic` do not belong to a child
ChildEntries(ws, components, i, synthetic) ==
    SubSeq(ws, synthetic + EntriesBefore(components, i) + 1,
           synthetic + EntriesBefore(components, i) + EntriesOf(components[i]))

\* calculate_widths has returned for the top level
Calculated == pc \in {"widths", "done"}
TopLevel == mixture_info.ingredients

\* C12: when the children with Content of a level carry more than one
\* concentration kind, the entry point reports an error value to its
\* caller: no image is produced and the process does not abort.
C12_MixedUnitsIsAnErrorValue ==
    (pc = "done" /\ Cardinality(KindsOf(TopLevel)) > 1) =>
        /\ calculated.tag = "Err"
        /\ generation \notin {"panicked", "draw_components"}

\* C13: on a level where no direct child has a Content, calculate_widths
\* fails with an explicit error; it does not read the first element of the
\* empty list of kinds.
C13_NoContentIsAnExplicitError ==
    (Calculated /\ KindsOf(TopLevel) = {}) => calculated.tag = "Err"

\* C14: when the sum of the known children's values is at least the
\* capacity, every child without Content (and every descendant of a
\* compound without Content) is emitted with width 0 and no synthetic
\* entry is added.
C14_OverSubscribed ==
    (/\ Calculated /\ calculated.tag = "Ok"
     /\ LevelSum(TopLevel) >= LevelCapacity(TopLevel)) =>
        /\ Len(calculated.val.widths)
              = EntriesBefore(TopLevel, Len(TopLevel) + 1)
        /\ \A i \in UnknownOf(TopLevel) :
              LET es == ChildEntries(calculated.val.widths, TopLevel, i, 0)
              IN  \A k \in 1..Len(es) : IsZero(es[k][2])

\* the share of the level the code gives to a quantity q of a level whose
\* known values sum to s
ShareOf(q, s) == FDiv(AsF32(q), AsF32(s))

\* the entries of child i are those of a child holding the quantity q
HoldsQuantity(ws, components, i, synthetic, q) ==
    LET es == ChildEntries(ws, components, i, synthetic)
        share == ShareOf(q, LevelSum(components))
    IN  IF components[i].kind = "Substance" THEN es[1][2] = share
        ELSE es = Scaled(calculate_widths(components[i].ingredients,
                                          TRUE).val.widths, share)

\* C15: when exactly one child has no Content and the sum is below the
\* capacity, that child is assigned (capacity - sum), in the unit in which
\* every known child is assigned its value at the level's minimum
\* magnitude; no synthetic entry is added.
C15_SingleUnknownTakesTheRemainder ==
    (/\ Calculated /\ calculated.tag = "Ok"
     /\ Cardinality(UnknownOf(TopLevel)) = 1
     /\ LevelSum(TopLevel) < LevelCapacity(TopLevel)) =>
        /\ Len(calculated.val.widths)
              = EntriesBefore(TopLevel, Len(TopLevel) + 1)
        /\ \A i \in 1..Len(TopLevel) :
              HoldsQuantity(calculated.val.widths, TopLevel, i, 0,
                  IF i \in UnknownOf(TopLevel)
                  THEN LevelCapacity(TopLevel) - LevelSum(TopLevel)
                  ELSE LevelValue(TopLevel, i))

C15_Witness ==
    /\ Calculated /\ calculated.tag = "Ok"
    /\ Cardinality(UnknownOf(TopLevel)) = 1
    /\ LevelSum(TopLevel) = 50 /\ LevelCapacity(TopLevel) = 100
    /\ \E i \in UnknownOf(TopLevel) :
          /\ TopLevel[i].kind = "Substance"
          /\ ChildEntries(calculated.val.widths, TopLevel, i, 0)[1][2]
                = F32(1, 1)

\* C16: when the number of children without Content is not one and the sum
\* is below the capacity, exactly one synthetic entry with the empty index
\* and the weight (capacity - sum) / sum is added, and every child without
\* Content is emitted with width 0.
C16_SyntheticUnknownEntry ==
    (/\ Calculated /\ calculated.tag = "Ok"
     /\ Cardinality(UnknownOf(TopLevel)) /= 1
     /\ LevelSum(TopLevel) < LevelCapacity(TopLevel)) =>
        /\ Len(calculated.val.widths)
              = 1 + EntriesBefore(TopLevel, Len(TopLevel) + 1)
        /\ calculated.val.widths[1]
              = << <<>>, ShareOf(LevelCapacity(TopLevel)
                                     - LevelSum(TopLevel),
                                 LevelSum(TopLevel)) >>
        /\ \A i \in UnknownOf(TopLevel) :
              LET es == ChildEntries(calculated.val.widths, TopLevel, i, 1)
              IN  \A k \in 1..Len(es) : IsZero(es[k][2])

RECURSIVE HasUnestimatedLevel(_)
\* some level of the tree has the kind MR or MB
HasUnestimatedLevel(components) ==
    \/ KindsOf(components) \cap {"MR", "MB"} /= {}
    \/ \E i \in 1..Len(components) :
          /\ components[i].kind = "Mixture"
          /\ HasUnestimatedLevel(components[i].ingredients)

\* C17: the unestimated_capacity flag calculate_widths returns is true
\* exactly when some level it visited has the kind MR or MB.
C17_UnestimatedFlag ==
    (Calculated /\ calculated.tag = "Ok") =>
        (calculated.val.unestimated_capacity = HasUnestimatedLevel(TopLevel))

C17_Witness ==
    /\ Calculated /\ calculated.tag = "Ok"
    /\ calculated.val.unestimated_capacity
    /\ KindsOf(TopLevel) = {"PP"}

RECURSIVE OneKindEverywhere(_)
\* every level of the tree has exactly one kind among its children with a
\* Content (hence at least one such child)
OneKindEverywhere(components) ==
    /\ Cardinality(KindsOf(components)) = 1
    /\ \A i \in 1..Len(components) :
          components[i].kind = "Mixture" =>
              OneKindEverywhere(components[i].ingredients)

RECURSIVE SafeMagnitudes(_)
\* at every level the magnitude calculate_widths chooses is at most the
\* magnitude of every child's Content and at most the maximum viable one
SafeMagnitudes(components) ==
    LET kind == CHOOSE k \in KindsOf(components) : TRUE
        min_magnitude == MinOf(Magnitudes(Known(components), kind))
    IN  /\ \A i \in (1..Len(components)) \ UnknownOf(components) :
              min_magnitude <= components[i].content[1].magnitude
        /\ \A j \in 1..Len(maximum_viable_magnitude(kind)) :
              min_magnitude <= maximum_viable_magnitude(kind)[j]
        /\ \A i \in 1..Len(components) :
              components[i].kind = "Mixture" =>
                  SafeMagnitudes(components[i].ingredients)

\* C23: at every level with one kind and at least one child with Content,
\* the chosen minimum magnitude is at most the magnitude of every child's
\* Content and at most the kind's maximum viable magnitude, so neither
\* value_at_magnitude nor calculate_capacity aborts inside calculate_widths.
C23_MagnitudeSelectionSafe ==
    (Calculated /\ OneKindEverywhere(TopLevel)) =>
        /\ SafeMagnitudes(TopLevel)
        /\ calculated.tag = "Ok"

C23_Witness ==
    /\ Calculated /\ OneKindEverywhere(TopLevel)
    /\ calculated.tag = "Ok"
    /\ \E i \in 1..Len(TopLevel) :
          /\ TopLevel[i].content = Some(Content(5, "PP", 2))
          /\ LevelMagnitude(TopLevel) = 1
          /\ LevelValue(TopLevel, i) = 50

RECURSIVE SharesOver(_, _)
\* the sum of the shares of the children in I
SharesOver(components, I) ==
    IF I = {} THEN AsF32(0)
    ELSE LET i == CHOOSE j \in I : TRUE
         IN  FAdd(ShareOf(LevelValue(components, i), LevelSum(components)),
                  SharesOver(components, I \ {i}))

\* the entries calculate_widths added that belong to no child
SyntheticEntries(ws, components) ==
    Len(ws) - EntriesBefore(components, Len(components) + 1)

\* C25: a child with Content has the share value / sum, a compound child
\* multiplies every entry of its own level by that share, a substance is
\* emitted once under its index (the empty string without one), and the
\* shares of the known children add up to 1.
C25_SharesAndNesting ==
    (Calculated /\ calculated.tag = "Ok") =>
        LET ws == calculated.val.widths
            known == (1..Len(TopLevel)) \ UnknownOf(TopLevel)
        IN  /\ \A i \in known :
                  HoldsQuantity(ws, TopLevel, i,
                                SyntheticEntries(ws, TopLevel),
                                LevelValue(TopLevel, i))
            /\ \A i \in 1..Len(TopLevel) :
                  TopLevel[i].kind = "Substance" =>
                      ChildEntries(ws, TopLevel, i,
                                   SyntheticEntries(ws, TopLevel))[1][1]
                          = IF TopLevel[i].index = None THEN <<>>
                            ELSE TopLevel[i].index[1]
            /\ SharesOver(TopLevel, known) = AsF32(1)

RECURSIVE PositiveSums(_)
\* at every level the sum of the known children's values is positive
PositiveSums(components) ==
    /\ LevelSum(components) > 0
    /\ \A i \in 1..Len(components) :
          components[i].kind = "Mixture" =>
              PositiveSums(components[i].ingredients)

\* C27: at every level of an accepted tree the sum of the known values,
\* the divisor of (capacity - sum) / sum and of every share, is strictly
\* positive, so no width is the quotient of a division by zero.
C27_NoDivisionByZero ==
    (Calculated /\ calculated.tag = "Ok") =>
        /\ PositiveSums(TopLevel)
        /\ \A k \in 1..Len(calculated.val.widths) :
              IsFinite(calculated.val.widths[k][2])

----------------------------------------------------------------------------
(* Ordering and bar layout: Picture::draw_compound_bar, layouts.rs:349-463, *)
(* and Picture::draw_components, layouts.rs:466-692.  The weights of this  *)
(* part are finite.                                                        *)

MaxEntries == 3

\* base_bar_size, the height of the bar; ordinates are relative to y_offset
BaseBarSize == 12

\* layouts.rs:367-380: the key an entry is summed under.  value - 1 on
\* usize underflows for the index 0: a panic with overflow checks, and
\* without them usize::MAX, which no scheme has.
ActualIndex(index, schemes_len, overflow_checks) ==
    LET p == parse_usize(index)
    IN  IF p = None THEN Ok(<<>>)
        ELSE IF p[1] = 0
        THEN IF overflow_checks THEN Abort ELSE Ok(<<>>)
        ELSE IF p[1] - 1 < schemes_len THEN Ok(index) ELSE Ok(<<>>)

RECURSIVE SumUnder(_, _, _, _, _)
\* layouts.rs:382-383: the sum of the widths under one key, from entry i on
SumUnder(key, widths, i, schemes_len, acc) ==
    IF i > Len(widths) THEN acc
    ELSE SumUnder(key, widths, i + 1, schemes_len,
                  IF ActualIndex(widths[i][1], schemes_len, FALSE).val = key
                  THEN FAdd(acc, widths[i][2]) ELSE acc)

\* layouts.rs:363-384: sums, a map from key to summed width
Sums(widths, schemes_len) ==
    [key \in {ActualIndex(widths[i][1], schemes_len, FALSE).val :
                 i \in 1..Len(widths)}
        |-> SumUnder(key, widths, 1, schemes_len, AsF32(0))]

\* usize::to_string of a key below ten
to_string(key) == <<CHOOSE c \in Digits : DigitVal(c) = key>>

RECURSIVE OrderedFrom(_, _, _, _)
\* layouts.rs:408-424: the entries of a map in the order of the schemes
OrderedFrom(map, keys, key, schemes_len) ==
    IF key >= schemes_len THEN <<>>
    ELSE (IF to_string(key + 1) \in keys
          THEN << <<to_string(key + 1), map[to_string(key + 1)]>> >>
          ELSE <<>>)
         \o OrderedFrom(map, keys, key + 1, schemes_len)

RECURSIVE OrderedIndices(_)
\* layouts.rs:436-443: the scheme ordering read from the ordered widths
OrderedIndices(ordered_widths) ==
    IF ordered_widths = <<>> THEN <<>>
    ELSE LET p == parse_usize(ordered_widths[1][1])
         IN  (IF p = None THEN <<>> ELSE <<p[1] - 1>>)
             \o OrderedIndices(Tail(ordered_widths))

\* the orders in which sums.iter() can give the keys of the HashMap
Iterations(sums) ==
    {it \in [1..Cardinality(DOMAIN sums) -> DOMAIN sums] :
        \A k \in DOMAIN sums : \E i \in DOMAIN it : it[i] = k}

\* HashMap::insert
Insert(map, key, value) ==
    [k \in DOMAIN map \cup {key} |-> IF k = key THEN value ELSE map[k]]

RECURSIVE Sorted(_, _, _, _)
\* layouts.rs:394-406: ordered_widths_map, empty_map and unknown, after the
\* keys from i on in the order of the iteration
Sorted(sums, keys_in_order, i, acc) ==
    IF i > Len(keys_in_order) THEN acc
    ELSE Sorted(sums, keys_in_order, i + 1,
                IF keys_in_order[i] = <<>>
                THEN [acc EXCEPT !.unknown =
                         Some(<<keys_in_order[i], sums[keys_in_order[i]]>>)]
                ELSE IF IsZero(sums[keys_in_order[i]])
                THEN [acc EXCEPT !.empty_map =
                         Insert(@, keys_in_order[i], sums[keys_in_order[i]])]
                ELSE [acc EXCEPT !.ordered_widths_map =
                         Insert(@, keys_in_order[i], sums[keys_in_order[i]])])

\* layouts.rs:408-433: ordered_widths from the two maps and unknown
OrderedOf(maps, schemes_len) ==
    OrderedFrom(maps.ordered_widths_map, DOMAIN maps.ordered_widths_map,
                0, schemes_len)
    \o OrderedFrom(maps.empty_map, DOMAIN maps.empty_map, 0, schemes_len)
    \o maps.unknown

\* OrderedWidths, pushing every entry as the iteration gives it
OrderedWidths_AsIterated(sums, schemes_len, keys_in_order) ==
    [i \in 1..Len(keys_in_order) |->
        <<keys_in_order[i], sums[keys_in_order[i]]>>]

\* layouts.rs:394-433: ordered_widths from sums
OrderedWidths(sums, schemes_len, keys_in_order) ==
    OrderedOf(Sorted(sums, keys_in_order, 1,
                     [ordered_widths_map |-> <<>>, empty_map |-> <<>>,
                      unknown |-> None]),
              schemes_len)

\* layouts.rs:435-445: the ordered widths and self.scheme_ordering
WithOrdering(ordered_widths) ==
    Ok([widths |-> ordered_widths,
        scheme_ordering |-> OrderedIndices(ordered_widths)])

\* layouts.rs:363-445: draw_compound_bar up to the call of draw_components
OrderWidths(widths, schemes_len, overflow_checks, keys_in_order) ==
    IF \E i \in 1..Len(widths) :
          ActualIndex(widths[i][1], schemes_len, overflow_checks).tag /= "Ok"
    THEN Abort
    ELSE WithOrdering(OrderedWidths(Sums(widths, schemes_len), schemes_len,
                                    keys_in_order))

\* f32::ln of the integers 1 to 80, in ten-thousandths
LnTable ==
    <<
      0, 6931, 10986, 13863, 16094, 17918, 19459, 20794, 21972, 23026,
      23979, 24849, 25649, 26391, 27081, 27726, 28332, 28904, 29444, 29957,
      30445, 30910, 31355, 31781, 32189, 32581, 32958, 33322, 33673, 34012,
      34340, 34657, 34965, 35264, 35553, 35835, 36109, 36376, 36636, 36889,
      37136, 37377, 37612, 37842, 38067, 38286, 38501, 38712, 38918, 39120,
      39318, 39512, 39703, 39890, 40073, 40254, 40431, 40604, 40775, 40943,
      41109, 41271, 41431, 41589, 41744, 41897, 42047, 42195, 42341, 42485,
      42627, 42767, 42905, 43041, 43175, 43307, 43438, 43567, 43694, 43820
    >>

RECURSIVE Ln(_)
\* layouts.rs:512: s.ln() of a whole size, in ten-thousandths
Ln(s) ==
    IF s > Len(LnTable) /\ s % 10 = 0 THEN LnTable[10] + Ln(s \div 10)
    ELSE LnTable[s]

\* the relative error allowed to the f32 operations of layouts.rs:512-519
\* is one in F32Precision
F32Precision == 1000

\* layouts.rs:480-490: the entries whose width is not 0f32
Kept(widths) == SelectSeq(widths, LAMBDA w : ~IsZero(w[2]))

\* StretchSizes, multiplying by ten once at most
StretchSizes_Once(sizes) ==
    IF \E i \in 1..Len(sizes) : sizes[i].n < 10 * sizes[i].d
    THEN [i \in 1..Len(sizes) |-> FMul(sizes[i], AsF32(10))]
    ELSE sizes

RECURSIVE StretchSizes(_)
\* layouts.rs:493-501: sizes times ten while the least is below ten
StretchSizes(sizes) ==
    IF \E i \in 1..Len(sizes) : sizes[i].n < 10 * sizes[i].d
    THEN StretchSizes([i \in 1..Len(sizes) |-> FMul(sizes[i], AsF32(10))])
    ELSE sizes

\* layouts.rs:503-510: the nominal entry of an unestimated capacity
EntrySizes(kept, unestimated_capacity) ==
    StretchSizes([i \in 1..Len(kept) |-> kept[i][2]])
    \o (IF unestimated_capacity
           /\ ~\E i \in 1..Len(kept) : kept[i][1] = <<>>
        THEN <<AsF32(4)>> ELSE <<>>)

\* layouts.rs:480-507: the indices of the entries, the nominal one included
EntryIndices(kept, unestimated_capacity) ==
    [i \in 1..Len(kept) |-> kept[i][1]]
    \o (IF unestimated_capacity
           /\ ~\E i \in 1..Len(kept) : kept[i][1] = <<>>
        THEN << <<>> >> ELSE <<>>)

\* layouts.rs:581-584: the colour of a segment, the position of the scheme
\* written out standing for its primary colour; self.schemes[value - 1]
\* panics when value - 1 underflows or is out of range
ColorOf(index, schemes_len, overflow_checks) ==
    LET p == parse_usize(index)
    IN  IF p = None THEN Ok("gray")
        ELSE IF p[1] = 0 \/ p[1] > schemes_len THEN Abort
        ELSE Ok(ToString(p[1] - 1))

RECURSIVE SumSeq(_)
SumSeq(ns) == IF ns = <<>> THEN 0 ELSE ns[1] + SumSeq(Tail(ns))

\* layouts.rs:516-519: (s / ln_sum * available_width as f32) as u32, every
\* outcome the rounding of the f32 operations can give: the quotient
\* rounded down, or the integer next to it when the quotient is within the
\* allowed error of that integer
ActualSizes(ln_sizes, available_width) ==
    LET ln_sum == SumSeq(ln_sizes)
        share(i) == ln_sizes[i] * available_width
        down(i) == share(i) \div ln_sum
        left(i) == share(i) % ln_sum
        below(i) == IF left(i) * F32Precision < share(i) /\ down(i) > 0
                    THEN down(i) - 1 ELSE down(i)
        above(i) == IF (ln_sum - left(i)) * F32Precision <= share(i)
                    THEN down(i) + 1 ELSE down(i)
    IN  {[i \in 1..Len(ln_sizes) |-> IF i \in up THEN above(i) ELSE below(i)] :
            up \in SUBSET (1..Len(ln_sizes))}

\* Reclaim, without the stretching loop
Reclaim_Nothing(actual_sizes, sizes_sum_diff, i, overflow_checks) ==
    Ok(actual_sizes)

RECURSIVE Reclaim(_, _, _, _)
\* layouts.rs:522-546: one pixel at a time to the sizes in turn, from i
\* on, until the difference is zero.  actual_sizes[i] -= 1 is on u32: at 0
\* it panics with overflow checks and wraps without them; a u32 of 2^31 or
\* more is written as its difference from 2^32 (-1 is 4294967295).
Reclaim(actual_sizes, sizes_sum_diff, i, overflow_checks) ==
    IF sizes_sum_diff = 0 THEN Ok(actual_sizes)
    ELSE IF sizes_sum_diff > 0
    THEN Reclaim([actual_sizes EXCEPT ![i] = @ + 1], sizes_sum_diff - 1,
                 (i % Len(actual_sizes)) + 1, overflow_checks)
    ELSE IF actual_sizes[i] = 0 /\ overflow_checks THEN Abort
    ELSE Reclaim([actual_sizes EXCEPT ![i] = @ - 1],
                 sizes_sum_diff + 1, (i % Len(actual_sizes)) + 1,
                 overflow_checks)

\* the shapes; ordinates are relative to y_offset
Line(x1, y1, x2, y2) ==
    [shape |-> "Line", x1 |-> x1, y1 |-> y1, x2 |-> x2, y2 |-> y2]
Rectangle(x, width, color) ==
    [shape |-> "Rectangle", x |-> x, y |-> 0, width |-> width,
     height |-> BaseBarSize, color |-> color]
Square(x, y, size) == [shape |-> "Square", x |-> x, y |-> y, size |-> size]

\* layouts.rs:550-573: the top, left and bottom lines of the frame
Frame(start_x, end_x) ==
    << Line(start_x, 0, end_x, 0),
       Line(start_x, 0, start_x, BaseBarSize),
       Line(start_x, BaseBarSize, end_x, BaseBarSize) >>

RECURSIVE EndOf(_, _, _)
\* layouts.rs:575-580: end after the first k segments
EndOf(start_x, actual_sizes, k) ==
    IF k = 0 THEN start_x
    ELSE EndOf(start_x, actual_sizes, k - 1) + actual_sizes[k]

\* layouts.rs:586-592: the rectangle of every segment
Rectangles(start_x, actual_sizes, colors) ==
    [k \in 1..Len(actual_sizes) |->
        Rectangle(EndOf(start_x, actual_sizes, k - 1),
                  EndOf(start_x, actual_sizes, k)
                      - EndOf(start_x, actual_sizes, k - 1),
                  colors[k].val)]

\* layouts.rs:594-603: the vertical line after every segment
Dividers(start_x, actual_sizes) ==
    [k \in 1..Len(actual_sizes) |->
        Line(EndOf(start_x, actual_sizes, k), 0,
             EndOf(start_x, actual_sizes, k), BaseBarSize)]

\* layouts.rs:611-637: the three squares of the open end
OpenEndSquares(end_x) ==
    LET half_height == (BaseBarSize - 1) \div 2
        third_height == BaseBarSize \div 3
        sixth_height == third_height \div 2
    IN  << Square(end_x, sixth_height, third_height),
           Square(end_x, half_height, third_height),
           Square(end_x, half_height + third_height, third_height) >>

\* layouts.rs:639-691: the six lines of the open end
OpenEndLines(end_x) ==
    LET half_height == (BaseBarSize - 1) \div 2
        third_height == BaseBarSize \div 3
        sixth_height == third_height \div 2
        in_x == end_x - sixth_height
    IN  << Line(end_x, 0, in_x, sixth_height),
           Line(in_x, sixth_height, end_x, third_height),
           Line(end_x, third_height, in_x, half_height),
           Line(in_x, half_height, end_x, half_height + sixth_height),
           Line(end_x, half_height + sixth_height, in_x,
                half_height + third_height),
           Line(in_x, half_height + third_height, end_x, BaseBarSize) >>

\* layouts.rs:548-692: the layers, from the corrected sizes
Layers(start_x, end_x, unestimated_capacity, actual_sizes, colors) ==
    LET lines == Frame(start_x, end_x) \o Dividers(start_x, actual_sizes)
    IN  IF unestimated_capacity
        THEN [bar_layers |-> Rectangles(start_x, actual_sizes, colors)
                                 \o OpenEndSquares(end_x),
              line_layers |-> SubSeq(lines, 1, Len(lines) - 1)
                                  \o OpenEndLines(end_x)]
        ELSE [bar_layers |-> Rectangles(start_x, actual_sizes, colors),
              line_layers |-> lines]

\* layouts.rs:521-692: the correction and the shapes of one rounding
LaidOut(start_x, end_x, unestimated_capacity, colors, overflow_checks, corrected) ==
    IF corrected.tag /= "Ok" THEN corrected
    ELSE IF \E k \in 1..Len(colors) : colors[k].tag /= "Ok" THEN Abort
    ELSE Ok(Layers(start_x, end_x, unestimated_capacity, corrected.val,
                   colors))

\* layouts.rs:511-692: from the sizes and the indices of the entries on
ShapesFrom(sizes, indices, start_x, end_x, unestimated_capacity, overflow_checks, schemes_len) ==
    {LaidOut(start_x, end_x, unestimated_capacity,
             [k \in 1..Len(indices) |->
                 ColorOf(indices[k], schemes_len, overflow_checks)],
             overflow_checks,
             Reclaim(actual_sizes, (end_x - start_x) - SumSeq(actual_sizes),
                     1, overflow_checks)) :
        actual_sizes \in ActualSizes([i \in 1..Len(sizes) |-> Ln(sizes[i].n)],
                                     end_x - start_x)}

\* layouts.rs:466-692: every outcome of draw_components.  min_by(..)
\* .unwrap() panics when no width is left.
draw_components(widths, start_x, end_x, unestimated_capacity, overflow_checks, schemes_len) ==
    IF Kept(widths) = <<>> THEN {Abort}
    ELSE ShapesFrom(EntrySizes(Kept(widths), unestimated_capacity),
                    EntryIndices(Kept(widths), unestimated_capacity),
                    start_x, end_x, unestimated_capacity, overflow_checks,
                    schemes_len)

----------------
(* Scenario 6: draw_compound_bar on the widths calculate_widths returned.  *)

BarIndices == {<<>>, <<"1">>, <<"2">>, <<"0", "1">>, <<"0">>}
BarWeights == {AsF32(0), F32(1, 2), AsF32(2)}
\* end_x, the width of the picture less one; it is not below the sixth of
\* the height of the bar, which the open end subtracts from it
BarSpans == {2, 7, 10}

\* calculate_widths returns at least one entry, and a finite list of it
\* has a positive weight
WidthLists ==
    {ws \in SeqsUpTo(BarIndices \X BarWeights, MaxEntries) :
        \E i \in 1..Len(ws) : IsPositive(ws[i][2])}

InitBar ==
    /\ pc = "draw_compound_bar"
    /\ \E arg \in WidthLists \X {1, 2} \X BOOLEAN \X BarSpans \X BOOLEAN :
          /\ bar_widths = arg[1]
          /\ n_schemes = arg[2]
          /\ bar_unestimated = arg[3]
          /\ bar_end = arg[4]
          /\ checked_build = arg[5]
    /\ bar_start = 0
    /\ iteration = <<>> /\ ordered = NotRun /\ drawn = NotRun
    /\ receiver = Content(0, "PP", 0) /\ target = 0
    /\ at_magnitude = NotRun /\ capacity = NotRun
    /\ IdleTok /\ IdleMix /\ IdleStr /\ IdleWid

\* layouts.rs:363-445; the first loop panics before sums is iterated
Order ==
    /\ pc = "draw_compound_bar"
    /\ \E it \in Iterations(Sums(bar_widths, n_schemes)) :
          /\ ordered' = OrderWidths(bar_widths, n_schemes, checked_build, it)
          /\ iteration' = IF ordered'.tag = "Ok" THEN it ELSE <<>>
    /\ pc' = IF ordered'.tag = "Ok" THEN "draw_components" ELSE "done"
    /\ UNCHANGED <<tokVars, mixVars, strVars, magVars, widVars, bar_widths,
                   n_schemes, bar_unestimated, bar_start, bar_end, drawn>>

\* layouts.rs:447-456
DrawComponents ==
    /\ pc = "draw_components"
    /\ drawn' \in draw_components(ordered.val.widths, bar_start, bar_end,
                                  bar_unestimated, checked_build, n_schemes)
    /\ pc' = "done"
    /\ UNCHANGED <<tokVars, mixVars, strVars, magVars, widVars, bar_widths,
                   n_schemes, bar_unestimated, bar_start, bar_end, iteration,
                   ordered>>

NextBar == Order \/ DrawComponents

SpecBar == InitBar /\ [][NextBar]_vars

----------------------------------------------------------------------------
(* What C18 to C20 say of the bar.                                         *)

Ordered == pc \in {"draw_components", "done"}
Drawn == pc = "done" /\ ordered.tag = "Ok"
RectanglesOf(layers) ==
    SelectSeq(layers.bar_layers, LAMBDA sh : sh.shape = "Rectangle")
SquaresOf(layers) ==
    SelectSeq(layers.bar_layers, LAMBDA sh : sh.shape = "Square")

\* a vertical line over the whole height of the bar at x
IsDividerAt(sh, x) ==
    /\ sh.shape = "Line" /\ sh.x1 = x /\ sh.x2 = x
    /\ sh.y1 = 0 /\ sh.y2 = BaseBarSize

\* C18: for a non-empty list of positive weights the pixel widths after
\* the rounding correction sum exactly to end_x - start_x, and the
\* rectangles lie end to end, the first starting at start_x and the last
\* ending at end_x.
C18_PixelWidthsFillTheSpan ==
    (/\ Drawn
     /\ \E i \in 1..Len(ordered.val.widths) :
           IsPositive(ordered.val.widths[i][2])) =>
        /\ drawn.tag = "Ok"
        /\ LET rs == RectanglesOf(drawn.val)
           IN  /\ rs /= <<>>
               /\ SumSeq([k \in 1..Len(rs) |-> rs[k].width])
                     = bar_end - bar_start
               /\ \A k \in 1..Len(rs) : rs[k].width >= 0
               /\ rs[1].x = bar_start
               /\ \A k \in 1..(Len(rs) - 1) :
                     rs[k + 1].x = rs[k].x + rs[k].width
               /\ rs[Len(rs)].x + rs[Len(rs)].width = bar_end

C18_Witness ==
    /\ Drawn /\ drawn.tag = "Ok" /\ bar_end = 10
    /\ LET rs == RectanglesOf(drawn.val)
       IN  /\ Len(rs) = 3
           /\ rs[1].width = 4 /\ rs[2].width = 3 /\ rs[3].width = 3

NumericIndex(index, schemes_len) ==
    LET p == parse_usize(index)
    IN  IF p = None THEN 0
        ELSE IF p[1] >= 1 /\ p[1] <= schemes_len THEN p[1] ELSE 0

RECURSIVE TotalOf(_, _)
\* the summed weight of the entries, from i on, naming the scheme k
TotalOf(k, i) ==
    IF i > Len(bar_widths) THEN AsF32(0)
    ELSE FAdd(IF NumericIndex(bar_widths[i][1], n_schemes) = k
              THEN bar_widths[i][2] ELSE AsF32(0),
              TotalOf(k, i + 1))

Named(k) ==
    \E i \in 1..Len(bar_widths) :
        NumericIndex(bar_widths[i][1], n_schemes) = k

RECURSIVE Ascending(_, _)
\* the named schemes from k on with a positive (or a zero) total
Ascending(k, positive) ==
    IF k > n_schemes THEN <<>>
    ELSE (IF Named(k) /\ IsPositive(TotalOf(k, 1)) = positive
          THEN << <<k, TotalOf(k, 1)>> >> ELSE <<>>)
         \o Ascending(k + 1, positive)

\* C20: the weights of entries with the same index are summed, and the
\* ordered list holds the indices with a positive sum in ascending scheme
\* order, then those with a zero sum in ascending scheme order, then the
\* unknown bucket; each index occurs at most once.
C20_Ordering ==
    Ordered =>
        /\ ordered.tag = "Ok"
        /\ [i \in 1..Len(ordered.val.widths) |->
               <<NumericIndex(ordered.val.widths[i][1], n_schemes),
                 ordered.val.widths[i][2]>>]
              = Ascending(1, TRUE) \o Ascending(1, FALSE)
                  \o (IF Named(0) THEN << <<0, TotalOf(0, 1)>> >> ELSE <<>>)

\* C21: an entry whose index does not parse as an unsigned integer, or
\* parses to a number outside 1..len(schemes), 0 included, goes to the
\* unknown bucket without any failure, so that every non-empty index handed
\* to draw_components is within 1..len(schemes).
C21_IndexValidation ==
    Ordered =>
        /\ ordered.tag = "Ok"
        /\ \A i \in 1..Len(ordered.val.widths) :
              \/ ordered.val.widths[i][1] = <<>>
              \/ NumericIndex(ordered.val.widths[i][1], n_schemes)
                    \in 1..n_schemes
        /\ (\E i \in 1..Len(bar_widths) :
               LET p == parse_usize(bar_widths[i][1])
               IN  p = None \/ p[1] = 0 \/ p[1] > n_schemes)
              => \E i \in 1..Len(ordered.val.widths) :
                    ordered.val.widths[i][1] = <<>>

\* C22: identical inputs give the identical ordered list and scheme
\* ordering (and, with them, the identical shapes): the ordered list built
\* in draw_compound_bar does not depend on the order in which the HashMaps
\* are iterated.
C22_IterationOrderIrrelevant ==
    (pc = "draw_components" /\ ordered.tag = "Ok") =>
        LET sums == Sums(bar_widths, n_schemes)
        IN  \A it \in Iterations(sums) :
                ordered = WithOrdering(OrderedWidths(sums, n_schemes, it))

C22_Witness ==
    /\ pc = "draw_components" /\ ordered.tag = "Ok"
    /\ iteration = << <<"2">>, <<>>, <<"1">> >>
    /\ ordered.val.scheme_ordering = <<0, 1>>
    /\ Len(ordered.val.widths) = 3
    /\ ordered.val.widths[3][1] = <<>>

\* C24: every weight whose logarithm is taken, the nominal entry appended
\* for an unestimated capacity included, has been rescaled by the common
\* power of ten and is not below 10.
C24_RescaledBeforeLn ==
    (Drawn /\ drawn.tag = "Ok") =>
        LET sizes == EntrySizes(Kept(ordered.val.widths), bar_unestimated)
        IN  \A i \in 1..Len(sizes) : sizes[i].n >= 10 * sizes[i].d

RECURSIVE LeastPower(_, _)
\* the least power of ten, from k on, that brings every weight to 10
LeastPower(ws, k) ==
    IF \A i \in 1..Len(ws) : ws[i][2].n * 10 ^ k >= 10 * ws[i][2].d THEN k
    ELSE LeastPower(ws, k + 1)

\* C24, as the code has it: the weights of the list are multiplied by the
\* least common power of ten that brings the smallest to 10 or more; the
\* nominal entry of an unestimated capacity is appended after that, last,
\* with the weight 4, and is not rescaled.
C24_ListRescaledNominalNot ==
    (Drawn /\ drawn.tag = "Ok") =>
        LET kept == SelectSeq(ordered.val.widths, LAMBDA w : ~IsZero(w[2]))
            sizes == EntrySizes(Kept(ordered.val.widths), bar_unestimated)
            nominal == bar_unestimated
                          /\ \A i \in 1..Len(kept) : kept[i][1] /= <<>>
        IN  /\ Len(sizes) = Len(kept) + (IF nominal THEN 1 ELSE 0)
            /\ \A i \in 1..Len(kept) :
                  /\ sizes[i] = F32(kept[i][2].n * 10 ^ LeastPower(kept, 0),
                                    kept[i][2].d)
                  /\ sizes[i].n >= 10 * sizes[i].d
            /\ nominal => sizes[Len(sizes)] = F32(4, 1)

C24_Witness ==
    /\ Drawn /\ drawn.tag = "Ok" /\ bar_unestimated
    /\ EntrySizes(Kept(ordered.val.widths), bar_unestimated)
          = <<F32(50, 1), F32(200, 1), F32(4, 1)>>

RECURSIVE WeightFrom(_, _)
\* the sum of the weights of a list of entries, from i on
WeightFrom(ws, i) ==
    IF i > Len(ws) THEN AsF32(0) ELSE FAdd(ws[i][2], WeightFrom(ws, i + 1))

\* C28: the weights of the ordered list sum to the total of the weights
\* calculate_widths returned, also when an index is a non-canonical numeral
\* of a valid scheme such as "01".
C28_WeightConserved ==
    (Ordered /\ ordered.tag = "Ok") =>
        WeightFrom(ordered.val.widths, 1) = WeightFrom(bar_widths, 1)

\* C29: the scheme_ordering set by draw_compound_bar is a permutation of
\* the scheme positions 0..len(schemes)-1, also when the index of a scheme
\* does not occur among the widths.
C29_OrderingIsPermutation ==
    (Ordered /\ ordered.tag = "Ok") =>
        /\ Len(ordered.val.scheme_ordering) = n_schemes
        /\ \A k \in 0..(n_schemes - 1) :
              \E i \in 1..Len(ordered.val.scheme_ordering) :
                  ordered.val.scheme_ordering[i] = k

====
